---- MODULE Spec2Model ----
(***************************************************************************)
(* Model of the report generators of src/app.py: create_student_excel     *)
(* (one sheet per student with categorized grades, category averages and  *)
(* the weighted final grade) and create_attendance_excel, together with   *)
(* categorize_columns.  Text is modelled as sequences of one-character    *)
(* strings so that slicing, stripping, case folding and substring tests   *)
(* are computed as Python computes them.  Numbers are exact rationals.    *)
(***************************************************************************)
EXTENDS Integers, Sequences, FiniteSets, TLC

(***************************************************************************)
(* Characters and text                                                     *)
(***************************************************************************)

\* The characters used by the inputs, in increasing code-point order.
Alphabet ==
  << " ", "*", "+", ",", "-", ".", "/",
     "0", "1", "2", "3", "4", "5", "6", "7", "8", "9",
     ":", "?",
     "A", "B", "C", "D", "E", "F", "G", "H", "I", "J", "K", "L", "M",
     "N", "O", "P", "Q", "R", "S", "T", "U", "V", "W", "X", "Y", "Z",
     "[", "\\", "]", "_",
     "a", "b", "c", "d", "e", "f", "g", "h", "i", "j", "k", "l", "m",
     "n", "o", "p", "q", "r", "s", "t", "u", "v", "w", "x", "y", "z" >>

UpperLetters ==
  << "A", "B", "C", "D", "E", "F", "G", "H", "I", "J", "K", "L", "M",
     "N", "O", "P", "Q", "R", "S", "T", "U", "V", "W", "X", "Y", "Z" >>

LowerLetters ==
  << "a", "b", "c", "d", "e", "f", "g", "h", "i", "j", "k", "l", "m",
     "n", "o", "p", "q", "r", "s", "t", "u", "v", "w", "x", "y", "z" >>

Digits == << "0", "1", "2", "3", "4", "5", "6", "7", "8", "9" >>

Range(s) == { s[i] : i \in 1..Len(s) }

IndexOf(c, s) == CHOOSE i \in 1..Len(s) : s[i] = c

\* Code-point order of a character.
Ord(c) == IndexOf(c, Alphabet)

LowerChar(c) == IF c \in Range(UpperLetters) THEN LowerLetters[IndexOf(c, UpperLetters)] ELSE c

UpperChar(c) == IF c \in Range(LowerLetters) THEN UpperLetters[IndexOf(c, LowerLetters)] ELSE c

\* str.lower()
Lower(s) == [i \in 1..Len(s) |-> LowerChar(s[i])]

\* str.upper()
Upper(s) == [i \in 1..Len(s) |-> UpperChar(s[i])]

\* s[:n]
Take(s, n) == IF Len(s) <= n THEN s ELSE SubSeq(s, 1, n)

RECURSIVE LStrip(_)
LStrip(s) == IF s # << >> /\ Head(s) = " " THEN LStrip(Tail(s)) ELSE s

RECURSIVE RStrip(_)
RStrip(s) == IF s # << >> /\ s[Len(s)] = " " THEN RStrip(SubSeq(s, 1, Len(s) - 1)) ELSE s

\* str.strip()
Strip(s) == RStrip(LStrip(s))

\* Python's  k in s  for strings: k occurs as a contiguous substring of s.
Contains(s, k) ==
  \E i \in 0..(Len(s) - Len(k)) : \A j \in 1..Len(k) : s[i + j] = k[j]

\* Python's  s < t  for strings: lexicographic order on code points.
RECURSIVE StrLess(_, _)
StrLess(s, t) ==
  IF t = << >> THEN FALSE
  ELSE IF s = << >> THEN TRUE
  ELSE IF Head(s) # Head(t) THEN Ord(Head(s)) < Ord(Head(t))
  ELSE StrLess(Tail(s), Tail(t))

\* str(n) for a natural number n.
RECURSIVE NatStr(_)
NatStr(n) == IF n < 10 THEN << Digits[n + 1] >> ELSE NatStr(n \div 10) \o << Digits[(n % 10) + 1] >>

\* str(n) for an integer n.
IntStr(n) == IF n < 0 THEN << "-" >> \o NatStr(0 - n) ELSE NatStr(n)

RECURSIVE Rep(_, _)
Rep(s, n) == IF n = 0 THEN << >> ELSE s \o Rep(s, n - 1)

(***************************************************************************)
(* Exact rational numbers [n, d] with d > 0, in lowest terms               *)
(***************************************************************************)

Abs(x) == IF x < 0 THEN 0 - x ELSE x

RECURSIVE GCD(_, _)
GCD(a, b) == IF b = 0 THEN a ELSE GCD(b, a % b)

Frac(n, d) ==
  LET g == GCD(Abs(n), Abs(d))
      sg == IF d < 0 THEN 0 - 1 ELSE 1
  IN  [n |-> (sg * n) \div g, d |-> (sg * d) \div g]

Int2F(n) == [n |-> n, d |-> 1]

FAdd(a, b) == Frac(a.n * b.d + b.n * a.d, a.d * b.d)

FMul(a, b) == Frac(a.n * b.n, a.d * b.d)

\* a / b for b # 0
FDiv(a, b) == Frac(a.n * b.d, a.d * b.n)

FIsZero(a) == a.n = 0

FIsPos(a) == a.n > 0

RECURSIVE FSum(_)
FSum(s) == IF s = << >> THEN Int2F(0) ELSE FAdd(Head(s), FSum(Tail(s)))

(***************************************************************************)
(* Cell values of the dataset: a missing value (NaN/None), a text, or a    *)
(* number.  Every cell carries the three fields so that cells compare.     *)
(***************************************************************************)

NaN == [t |-> "nan", s |-> << >>, v |-> Int2F(0)]

Str(s) == [t |-> "str", s |-> s, v |-> Int2F(0)]

Num(f) == [t |-> "num", s |-> << >>, v |-> f]

\* pd.notna(x)
notna(x) == x.t # "nan"

\* str(x) of a float with at most one decimal digit: 85.0 -> "85.0", -7.5 -> "-7.5".
FloatStr(f) ==
  LET tenths == (Abs(f.n) * 10) \div f.d
  IN  (IF f.n < 0 THEN << "-" >> ELSE << >>) \o NatStr(tenths \div 10) \o << "." >> \o NatStr(tenths % 10)

\* str(x) of a cell value; str(nan) is "nan".
PyStr(x) ==
  CASE x.t = "str" -> x.s
    [] x.t = "num" -> FloatStr(x.v)
    [] OTHER -> << "n", "a", "n" >>

IsDigits(s) == \A i \in 1..Len(s) : s[i] \in Range(Digits)

RECURSIVE DigitsVal(_)
DigitsVal(s) == IF s = << >> THEN 0 ELSE DigitsVal(SubSeq(s, 1, Len(s) - 1)) * 10 + (IndexOf(s[Len(s)], Digits) - 1)

RECURSIVE Pow10(_)
Pow10(k) == IF k = 0 THEN 1 ELSE 10 * Pow10(k - 1)

\* float(s) of a text, for the decimal literals  [ws][+-]digits[.digits][ws]
\* (the inputs hold no exponent, underscore, "inf" or "nan" literals).
\* ok = FALSE stands for the ValueError that float() raises.
ParseFloat(s) ==
  LET t == Strip(s)
      signed == t # << >> /\ Head(t) \in {"+", "-"}
      body == IF signed THEN Tail(t) ELSE t
      dots == { i \in 1..Len(body) : body[i] = "." }
      ip == IF dots = {} THEN body ELSE SubSeq(body, 1, (CHOOSE i \in dots : TRUE) - 1)
      fp == IF dots = {} THEN << >> ELSE SubSeq(body, (CHOOSE i \in dots : TRUE) + 1, Len(body))
      ok == /\ Cardinality(dots) <= 1
            /\ IsDigits(ip) /\ IsDigits(fp)
            /\ Len(ip) + Len(fp) > 0
      mag == Frac(DigitsVal(ip) * Pow10(Len(fp)) + DigitsVal(fp), Pow10(Len(fp)))
  IN  IF ok
      THEN [ok |-> TRUE, v |-> IF signed /\ Head(t) = "-" THEN Frac(0 - mag.n, mag.d) ELSE mag]
      ELSE [ok |-> FALSE, v |-> Int2F(0)]

(***************************************************************************)
(* Dictionaries.  A dict whose iteration order matters is a sequence of    *)
(* <<key, value>> pairs with distinct keys, in insertion order; the other  *)
(* dicts are functions on their key set.                                   *)
(***************************************************************************)

Keys(d) == { d[i][1] : i \in 1..Len(d) }

\* d[k] for a key of the ordered dict d
Lookup(d, k) == d[CHOOSE i \in 1..Len(d) : d[i][1] = k][2]

\* d[k] = v: an existing key keeps its position, a new key goes last
DictSet(d, k, v) ==
  IF k \in Keys(d)
  THEN [i \in 1..Len(d) |-> IF d[i][1] = k THEN << k, v >> ELSE d[i]]
  ELSE Append(d, << k, v >>)

\* d.get(k, default) for a dict d that is a function on its key set
Get(d, k, default) == IF k \in DOMAIN d THEN d[k] ELSE default

(***************************************************************************)
(* categorize_columns                                                      *)
(***************************************************************************)

\* The inner loops: the first category, in the map's order, one of whose
\* keywords is a substring of the lower-cased column name; << >> for None.
\* "if found_category: break" does not leave the loop on an empty category
\* name, so such a category never keeps a column.
\* FoundCategory as it would be without the break out of the loop over the
\* categories: the last category with a matching keyword is kept
RECURSIVE FoundCategory_NoBreak(_, _)
FoundCategory_NoBreak(col_lower, category_keywords) ==
  IF category_keywords = << >> THEN << >>
  ELSE LET category == Head(category_keywords)[1]
           keywords == Head(category_keywords)[2]
           later == FoundCategory_NoBreak(col_lower, Tail(category_keywords))
       IN  IF later # << >> THEN later
           ELSE IF \E i \in 1..Len(keywords) : Contains(col_lower, Lower(keywords[i]))
                THEN << category >> ELSE << >>

\* FoundCategory as it would be if the loop over the keywords ended after
\* the first keyword whether it matched or not
RECURSIVE FoundCategory_FirstKeyword(_, _)
FoundCategory_FirstKeyword(col_lower, category_keywords) ==
  IF category_keywords = << >> THEN << >>
  ELSE LET category == Head(category_keywords)[1]
           keywords == Head(category_keywords)[2]
       IN  IF category # << >> /\ keywords # << >> /\ Contains(col_lower, Lower(keywords[1]))
           THEN << category >>
           ELSE FoundCategory_FirstKeyword(col_lower, Tail(category_keywords))

RECURSIVE FoundCategory(_, _)
FoundCategory(col_lower, category_keywords) ==
  IF category_keywords = << >> THEN << >>
  ELSE LET category == Head(category_keywords)[1]
           keywords == Head(category_keywords)[2]
       IN  IF category # << >> /\ \E i \in 1..Len(keywords) : Contains(col_lower, Lower(keywords[i]))
           THEN << category >>
           ELSE FoundCategory(col_lower, Tail(category_keywords))

\* The loop over the columns, carrying [categorized, uncategorized].
RECURSIVE CategorizeLoop(_, _, _)
CategorizeLoop(columns, category_keywords, acc) ==
  IF columns = << >> THEN acc
  ELSE LET col == Head(columns)
           found == FoundCategory(Lower(col), category_keywords)
           next == IF found # << >>
                   THEN [acc EXCEPT !.categorized =
                           IF found[1] \in Keys(@)
                           THEN DictSet(@, found[1], Append(Lookup(@, found[1]), col))
                           ELSE DictSet(@, found[1], << col >>)]
                   ELSE [acc EXCEPT !.uncategorized = Append(@, col)]
       IN  CategorizeLoop(Tail(columns), category_keywords, next)

\* categorize_columns as it would be if the categories were listed in the
\* order of the keyword map
categorize_columns_ConfiguredOrder(columns, category_keywords) ==
  LET result == CategorizeLoop(columns, category_keywords, [categorized |-> << >>, uncategorized |-> << >>])
      listed == [i \in 1..Len(category_keywords) |->
                   << category_keywords[i][1],
                      IF category_keywords[i][1] \in Keys(result.categorized)
                      THEN Lookup(result.categorized, category_keywords[i][1]) ELSE << >> >>]
  IN  [categorized |-> SelectSeq(listed, LAMBDA p : p[2] # << >>),
       uncategorized |-> result.uncategorized]

\* categorize_columns as it would be if the else before
\* "uncategorized.append(col)" were missing
categorize_columns_NoElse(columns, category_keywords) ==
  [categorized |-> CategorizeLoop(columns, category_keywords,
                                  [categorized |-> << >>, uncategorized |-> << >>]).categorized,
   uncategorized |-> columns]

categorize_columns(columns, category_keywords) ==
  CategorizeLoop(columns, category_keywords, [categorized |-> << >>, uncategorized |-> << >>])

(***************************************************************************)
(* State                                                                   *)
(***************************************************************************)

VARIABLES
  mode,                    \* "grades": create_student_excel, "attendance": create_attendance_excel
  df,                      \* the dataset rows; row i of the sequence has index label i - 1
  grade_columns,           \* the columns of df that are not identifier columns, in order
  category_keywords,       \* ordered dict: category -> keywords
  show_category_averages,
  category_max_points,     \* dict: category -> default max points
  category_weights,        \* dict: category -> weight (%)
  item_max_points,         \* dict: column -> max points override
  attendance_columns,      \* the selected attendance columns, in order
  df_sorted,               \* the sorted copy of df: [idx, row] in the order of iteration
  pos,                     \* position of the loop in df_sorted
  sheetnames,              \* wb.sheetnames
  sheets,                  \* the worksheets of wb, in order of creation
  pc,                      \* "parse", "parsed": parse_numbers_file before and after the headers;
                           \* "start": a report is asked for; "loop": iterating; "saved": after wb.save
  headers,                 \* the first row of the table, as read
  unique_headers,          \* the column names of the dataset
  categorized,             \* ordered dict: category -> columns, from categorize_columns
  uncategorized,           \* the columns of no category
  excel_output,            \* what the last finished report holds: sheet names and sheets
  available_columns,       \* the columns given to detect_date_columns, in order
  exclude_list,            \* its exclude_columns
  auto_detected_dates      \* the list it returned

vars == << mode, df, grade_columns, category_keywords, show_category_averages,
           category_max_points, category_weights, item_max_points, attendance_columns,
           df_sorted, pos, sheetnames, sheets, pc,
           headers, unique_headers, categorized, uncategorized, excel_output,
           available_columns, exclude_list, auto_detected_dates >>

\* What the caller hands to a report, and the column names
\* The input and the result of detect_date_columns
detection == << available_columns, exclude_list, auto_detected_dates >>

\* No detection of date columns is asked for
NoDetection ==
  /\ available_columns = << >>
  /\ exclude_list = << >>
  /\ auto_detected_dates = << >>

inputs == << mode, df, grade_columns, category_keywords, show_category_averages,
             category_max_points, category_weights, item_max_points, attendance_columns,
             headers, unique_headers >>

\* What the loop over the rows leaves alone
config == << inputs, df_sorted, categorized, uncategorized, detection >>

(***************************************************************************)
(* Sorting by last name and the identity of a row                          *)
(***************************************************************************)

\* df[last_name_column].astype(str).str.lower() for the row with index label idx
SortKey(d, idx) == Lower(PyStr(d[idx + 1].last_name))

\* The frame whose row at position p is the row of d with rank p - 1
Arrange(d, rank) ==
  [p \in 1..Len(d) |->
     LET i == CHOOSE i \in DOMAIN rank : rank[i] = p - 1
     IN  [idx |-> i, row |-> d[i + 1]]]

\* The number of rows that come before the row labelled i, given the sort keys
Rank(keys, i) ==
  Cardinality({ j \in DOMAIN keys : StrLess(keys[j], keys[i]) \/ (keys[j] = keys[i] /\ j < i) })

Ranks(keys) == [i \in DOMAIN keys |-> Rank(keys, i)]

\* sort_values as it would be if the rows were left in the order of the dataset
sort_values_RowOrder(d) == [p \in 1..Len(d) |-> [idx |-> p - 1, row |-> d[p]]]

\* df.sort_values('_sort_key'): the rows in sorted order, each with its index
\* label.  The sort is stable on the datasets of at most 16 rows (numpy's
\* sort is an insertion sort there); the larger datasets used here hold
\* equal rows under each key, so the order among equal keys does not show.
sort_values(d) == Arrange(d, Ranks([i \in 0..(Len(d) - 1) |-> SortKey(d, i)]))

\* str(x).strip() if pd.notna(x) else ""
Identifier(x) == IF notna(x) THEN Strip(PyStr(x)) ELSE << >>

student_id(row) == Identifier(row.id)

first_name(row) == Identifier(row.first_name)

last_name(row) == Identifier(row.last_name)

\* SkipRow as it would be if the test left the ID out
SkipRow_NamesOnly(row) == first_name(row) = << >> /\ last_name(row) = << >>

\* "if not student_id and not first_name and not last_name: continue"
SkipRow(row) == student_id(row) = << >> /\ first_name(row) = << >> /\ last_name(row) = << >>

(***************************************************************************)
(* Sheet names                                                             *)
(***************************************************************************)

MaxTitle == 31

CollisionPrefix == 28

InvalidTitleChars == { "[", "]", ":", "*", "?", "/", "\\" }

Student_ == << "S", "t", "u", "d", "e", "n", "t", "_" >>

CommaSpace == << ",", " " >>

\* ''.join(c for c in s if c not in '[]:*?/\\')
RECURSIVE StripInvalid(_)
StripInvalid(s) ==
  IF s = << >> THEN << >>
  ELSE IF Head(s) \in InvalidTitleChars THEN StripInvalid(Tail(s))
       ELSE << Head(s) >> \o StripInvalid(Tail(s))

\* f"{last_name}, {first_name}"
sheet_name(row) == last_name(row) \o CommaSpace \o first_name(row)

\* SafeName as it would be without the removal of the invalid characters
SafeName_NoStrip(row, idx) ==
  LET safe_name == Take(sheet_name(row), MaxTitle)
  IN  IF safe_name = << >> \/ safe_name = CommaSpace THEN Student_ \o IntStr(idx) ELSE safe_name

\* safe_name before the duplicate handling
SafeName(row, idx) ==
  LET safe_name == StripInvalid(Take(sheet_name(row), MaxTitle))
  IN  IF safe_name = << >> \/ safe_name = CommaSpace THEN Student_ \o IntStr(idx) ELSE safe_name

\* Suffixed as it would be without the cut to 28 characters
Suffixed_NoCut(original_name, counter) == original_name \o << "_" >> \o NatStr(counter)

\* f"{original_name[:28]}_{counter}"
Suffixed(original_name, counter) == Take(original_name, CollisionPrefix) \o << "_" >> \o NatStr(counter)

\* DedupLoop as it would be if the body ran once before the first test
RECURSIVE DedupLoop_BodyFirst(_, _, _, _)
DedupLoop_BodyFirst(safe_name, original_name, counter, names) ==
  IF safe_name \in Range(names) \/ counter = 1
  THEN DedupLoop_BodyFirst(Suffixed(original_name, counter), original_name, counter + 1, names)
  ELSE [safe_name |-> safe_name, counter |-> counter]

\* "while safe_name in wb.sheetnames": the name and the counter the loop
\* ends with; the body has run counter - 1 times
RECURSIVE DedupLoop(_, _, _, _)
DedupLoop(safe_name, original_name, counter, names) ==
  IF safe_name \in Range(names)
  THEN DedupLoop(Suffixed(original_name, counter), original_name, counter + 1, names)
  ELSE [safe_name |-> safe_name, counter |-> counter]

\* Title as it would be without the duplicate handling
Title_NoDedup(row, idx, names) == SafeName(row, idx)

\* The title the sheet of a row is created with.
Title(row, idx, names) ==
  LET Loop(safe_name) == DedupLoop(safe_name, safe_name, 1, names).safe_name
  IN  Loop(SafeName(row, idx))

\* The counter when the sheet of a row is created
Counter(row, idx, names) ==
  LET Loop(safe_name) == DedupLoop(safe_name, safe_name, 1, names).counter
  IN  Loop(SafeName(row, idx))

(***************************************************************************)
(* Worksheet rows.  A written row is recorded with its row number, what it *)
(* is (kind), the values of columns A to D and the fill of the row.        *)
(***************************************************************************)

None == [t |-> "none", s |-> << >>, v |-> Int2F(0)]

E == << "E" >>

Excused == << "E", "x", "c", "u", "s", "e", "d" >>

Other == << "O", "t", "h", "e", "r" >>

WsRow(r, kind, a, b, c, d, fill) ==
  [row |-> r, kind |-> kind, a |-> a, b |-> b, c |-> c, d |-> d, fill |-> fill]

DefaultMaxPoints == 100

\* round(x, digits) on the exact value, ties to even; scale is 10^digits
RoundTo(f, scale) ==
  LET scaled == f.n * scale
      q == scaled \div f.d
      r2 == 2 * (scaled % f.d)
      up == r2 > f.d \/ (r2 = f.d /\ q % 2 = 1)
  IN  Frac(IF up THEN q + 1 ELSE q, scale)

\* round(x, 2)
Round2(f) == RoundTo(f, 100)

\* round(x, 1)
Round1(f) == RoundTo(f, 10)

(***************************************************************************)
(* create_student_excel: the items of one category                         *)
(***************************************************************************)

\* IsExcused as it would be if the marker had to be an upper-case E
IsExcused_CaseSensitive(cell_value) == notna(cell_value) /\ Strip(PyStr(cell_value)) = E

\* "pd.notna(cell_value) and str(cell_value).strip().upper() == 'E'"
IsExcused(cell_value) == notna(cell_value) /\ Upper(Strip(PyStr(cell_value))) = E

\* "float(cell_value) if pd.notna(cell_value) and cell_value != '' else 0",
\* and 0 on ValueError/TypeError
Grade(cell_value) ==
  IF notna(cell_value) /\ cell_value # Str(<< >>)
  THEN IF cell_value.t = "num" THEN cell_value.v
       ELSE IF ParseFloat(cell_value.s).ok THEN ParseFloat(cell_value.s).v ELSE Int2F(0)
  ELSE Int2F(0)

\* MaxPoints as it would be if an override applied to every item
MaxPoints_OverrideForAll(col, default_max_points) ==
  IF DOMAIN item_max_points # {}
  THEN item_max_points[CHOOSE c \in DOMAIN item_max_points : TRUE]
  ELSE default_max_points

\* "item_max_points.get(col, default_max_points)"
MaxPoints(col, default_max_points) == Get(item_max_points, col, default_max_points)

\* The fill of an item row: "if is_excused / elif grade == 0 / else"
ItemFill(is_excused, grade) ==
  IF is_excused THEN "excused_fill"
  ELSE IF FIsZero(grade) THEN "zero_score_fill" ELSE "score_fill"

\* Counted as it would be if an excused item were appended to the lists too
Counted_Always(is_excused, grade) == TRUE

\* Counted as it would be if a zero score were left out of the lists
Counted_NonZero(is_excused, grade) == ~ is_excused /\ ~ FIsZero(grade)

\* Whether the item is appended to category_grades and category_max
Counted(is_excused, grade) == ~ is_excused

\* ItemEnd as it would be if the row of an excused item showed "Excused" in
\* the score column too
ItemEnd_ExcusedInBoth(col, acc, is_excused, grade, max_points) ==
  [ws |-> Append(acc.ws, WsRow(acc.current_row, "item", Str(col),
                               IF is_excused THEN Str(Excused) ELSE Num(grade),
                               IF is_excused THEN Str(Excused) ELSE Num(Int2F(max_points)),
                               None, ItemFill(is_excused, grade))),
   current_row |-> acc.current_row + 1,
   total_excused |-> IF is_excused THEN acc.total_excused + 1 ELSE acc.total_excused,
   grades |-> IF Counted(is_excused, grade) THEN Append(acc.grades, grade) ELSE acc.grades,
   max |-> IF Counted(is_excused, grade) THEN Append(acc.max, Int2F(max_points)) ELSE acc.max]

\* The row written for an item and the lists after it; acc carries the sheet
\* rows, current_row, total_excused and category_grades and category_max.
ItemEnd(col, acc, is_excused, grade, max_points) ==
  [ws |-> Append(acc.ws, WsRow(acc.current_row, "item", Str(col),
                               IF is_excused THEN Str(E) ELSE Num(grade),
                               IF is_excused THEN Str(Excused) ELSE Num(Int2F(max_points)),
                               None, ItemFill(is_excused, grade))),
   current_row |-> acc.current_row + 1,
   total_excused |-> IF is_excused THEN acc.total_excused + 1 ELSE acc.total_excused,
   grades |-> IF Counted(is_excused, grade) THEN Append(acc.grades, grade) ELSE acc.grades,
   max |-> IF Counted(is_excused, grade) THEN Append(acc.max, Int2F(max_points)) ELSE acc.max]

\* The body of "for col in columns" for one item; the grade of an excused
\* item is 'E' and is carried as 0, which nothing reads.
Item(col, row, default_max_points, acc) ==
  ItemEnd(col, acc, IsExcused(row.cells[col]),
          IF IsExcused(row.cells[col]) THEN Int2F(0) ELSE Grade(row.cells[col]),
          MaxPoints(col, default_max_points))

RECURSIVE ItemLoop(_, _, _, _)
ItemLoop(columns, row, default_max_points, acc) ==
  IF columns = << >> THEN acc
  ELSE ItemLoop(Tail(columns), row, default_max_points, Item(Head(columns), row, default_max_points, acc))

\* "(total_earned / total_possible * 100) if total_possible > 0 else 0"
Average(grades, max) ==
  LET total_earned == FSum(grades)
      total_possible == FSum(max)
  IN  IF FIsPos(total_possible) THEN FMul(FDiv(total_earned, total_possible), Int2F(100)) ELSE Int2F(0)

\* HasAverage as it would be if no average were stored for a block whose
\* max points sum to 0
HasAverage_PossibleOnly(grades, max) == grades # << >> /\ max # << >> /\ FIsPos(FSum(max))

\* HasAverage as it would be if the average were stored for every block
HasAverage_Always(grades, max) == TRUE

\* "if category_grades and category_max:"
HasAverage(grades, max) == grades # << >> /\ max # << >>

\* One category block: the banner, the items and the average.  st carries
\* ws, current_row, total_excused, category_averages and blocks (for each
\* block the lists category_grades and category_max it ended with, whether
\* it stored an average, and the average computed from the lists).
BlockEnd(category, columns, st, done) ==
  [ws |-> done.ws,
   current_row |-> done.current_row,
   total_excused |-> done.total_excused,
   category_averages |->
     IF HasAverage(done.grades, done.max)
     THEN DictSet(st.category_averages, category, Average(done.grades, done.max))
     ELSE st.category_averages,
   blocks |-> Append(st.blocks, [category |-> category, columns |-> columns,
                                 grades |-> done.grades, max |-> done.max,
                                 has_average |-> HasAverage(done.grades, done.max),
                                 average |-> Average(done.grades, done.max)])]

Block(category, banner, columns, row, st) ==
  BlockEnd(category, columns, st,
           ItemLoop(columns, row, Get(category_max_points, category, DefaultMaxPoints),
                    [ws |-> Append(st.ws, WsRow(st.current_row, "category", Str(banner), None, None, None, "category_fill")),
                     current_row |-> st.current_row + 1,
                     total_excused |-> st.total_excused,
                     grades |-> << >>, max |-> << >>]))

\* "for category, columns in categorized.items()"
RECURSIVE CategoryLoop(_, _, _)
CategoryLoop(items, row, st) ==
  IF items = << >> THEN st
  ELSE CategoryLoop(Tail(items), row,
                    Block(Head(items)[1], Upper(Head(items)[1]), Head(items)[2], row, st))

\* "if uncategorized:" the OTHER block
OtherBlock(columns, row, st) ==
  IF columns # << >> THEN Block(Other, Upper(Other), columns, row, st) ELSE st

(***************************************************************************)
(* create_student_excel: the sections below the items                      *)
(***************************************************************************)

\* "for category, avg in category_averages.items()"
RECURSIVE AverageRows(_, _)
AverageRows(category_averages, r) ==
  IF category_averages = << >> THEN << >>
  ELSE << WsRow(r, "average", Str(Head(category_averages)[1]), Num(Round2(Head(category_averages)[2])), None, None, "none") >>
       \o AverageRows(Tail(category_averages), r + 1)

\* "if show_category_averages and category_averages:"
AveragesSection(st) ==
  IF show_category_averages /\ st.category_averages # << >>
  THEN [st EXCEPT
          !.ws = (Append(@, WsRow(st.current_row, "averages_banner", None, None, None, None, "header_fill")))
                 \o AverageRows(st.category_averages, st.current_row + 1),
          !.current_row = @ + 1 + Len(st.category_averages) + 1]
  ELSE st

\* "category_weights.get(category, 0)"
Weight(category) == Get(category_weights, category, 0)

\* WeightedScore as it would be without the division by 100
WeightedScore_NoDivision(avg_percentage, weight) ==
  IF weight > 0 THEN FMul(avg_percentage, Int2F(weight)) ELSE Int2F(0)

\* "(avg_percentage * weight) / 100 if weight > 0 else 0"
WeightedScore(avg_percentage, weight) ==
  IF weight > 0 THEN FDiv(FMul(avg_percentage, Int2F(weight)), Int2F(100)) ELSE Int2F(0)

\* "for category, avg_percentage in category_averages.items()": the rows
RECURSIVE WeightedRows(_, _)
WeightedRows(category_averages, r) ==
  IF category_averages = << >> THEN << >>
  ELSE LET category == Head(category_averages)[1]
           avg_percentage == Head(category_averages)[2]
       IN  << WsRow(r, "weighted", Str(category), Num(Round2(avg_percentage)), Num(Int2F(Weight(category))),
                    Num(Round2(WeightedScore(avg_percentage, Weight(category)))), "none") >>
           \o WeightedRows(Tail(category_averages), r + 1)

\* total_weighted_score after the loop
RECURSIVE TotalWeightedScore(_)
TotalWeightedScore(category_averages) ==
  IF category_averages = << >> THEN Int2F(0)
  ELSE FAdd(WeightedScore(Head(category_averages)[2], Weight(Head(category_averages)[1])),
            TotalWeightedScore(Tail(category_averages)))

\* total_weight_used after the loop
RECURSIVE TotalWeightUsed(_)
TotalWeightUsed(category_averages) ==
  IF category_averages = << >> THEN 0
  ELSE Weight(Head(category_averages)[1]) + TotalWeightUsed(Tail(category_averages))

\* HasWeighted as it would be if the weights alone decided on the section
HasWeighted_WeightsOnly(category_averages) == DOMAIN category_weights # {}

\* "if category_weights and category_averages:"
HasWeighted(category_averages) == DOMAIN category_weights # {} /\ category_averages # << >>

WeightedSection(st) ==
  IF HasWeighted(st.category_averages)
  THEN LET n == Len(st.category_averages)
           r == st.current_row
       IN  [st EXCEPT
              !.ws = (@ \o << WsRow(r, "weighted_banner", None, None, None, None, "header_fill"),
                              WsRow(r + 1, "weighted_header", None, None, None, None, "weight_fill") >>)
                     \o WeightedRows(st.category_averages, r + 2)
                     \o << WsRow(r + 2 + n + 1, "final", None,
                                 Num(Round2(TotalWeightedScore(st.category_averages))),
                                 Num(Int2F(TotalWeightUsed(st.category_averages))), None, "final_fill") >>,
              !.current_row = r + 2 + n + 1]
  ELSE st

\* ExcusedSection as it would be without "current_row += 2"
ExcusedSection_SameRow(st) ==
  IF st.total_excused > 0
  THEN [st EXCEPT
          !.ws = Append(@, WsRow(st.current_row, "excused", None, Num(Int2F(st.total_excused)), None, None, "excused_fill"))]
  ELSE st

\* "if total_excused > 0:"
ExcusedSection(st) ==
  IF st.total_excused > 0
  THEN [st EXCEPT
          !.ws = Append(@, WsRow(st.current_row + 2, "excused", None, Num(Int2F(st.total_excused)), None, None, "excused_fill")),
          !.current_row = @ + 2]
  ELSE st

HeaderRow == 5

\* The rows written before the categories: the identity block and the header.
TopRows(row) ==
  << WsRow(1, "id", None, Str(student_id(row)), None, None, "none"),
     WsRow(2, "first_name", None, Str(first_name(row)), None, None, "none"),
     WsRow(3, "last_name", None, Str(last_name(row)), None, None, "none"),
     WsRow(HeaderRow, "header", None, None, None, None, "header_fill") >>

\* The sheet as it is when the iteration ends, from the state st the sections end with
StudentSheetEnd(title, idx, st) ==
  [title |-> title,
   idx |-> idx,
   ws |-> st.ws,
   blocks |-> st.blocks,
   category_averages |-> st.category_averages,
   weighted |-> HasWeighted(st.category_averages),
   total_weighted_score |-> IF HasWeighted(st.category_averages) THEN TotalWeightedScore(st.category_averages) ELSE Int2F(0),
   total_weight_used |-> IF HasWeighted(st.category_averages) THEN TotalWeightUsed(st.category_averages) ELSE 0,
   total_excused |-> st.total_excused,
   total_present |-> 0,
   total_days |-> 0,
   total_absent |-> 0,
   attendance_rate |-> Int2F(0)]

\* The category blocks and the OTHER block, from the categorization cat
Blocks(cat, row, st) == OtherBlock(cat.uncategorized, row, CategoryLoop(cat.categorized, row, st))

\* "current_row += 1" after the blocks
SkipLine(st) == [st EXCEPT !.current_row = @ + 1]

\* The body of the loop of create_student_excel for a row that is not skipped.
StudentSheet(row, idx, names) ==
  [counter |-> Counter(row, idx, names)] @@
  StudentSheetEnd(Title(row, idx, names), idx,
    ExcusedSection(WeightedSection(AveragesSection(SkipLine(
      Blocks([categorized |-> categorized, uncategorized |-> uncategorized], row,
             [ws |-> TopRows(row), current_row |-> HeaderRow + 1, total_excused |-> 0,
              category_averages |-> << >>, blocks |-> << >>]))))))

(***************************************************************************)
(* create_attendance_excel                                                 *)
(***************************************************************************)

\* AttendanceGrade as it would be if a value above 1 were clamped to 1
AttendanceGrade_Clamped(cell_value) ==
  IF FIsPos(FAdd(Grade(cell_value), Int2F(0 - 1))) THEN Int2F(1) ELSE Grade(cell_value)

\* "float(x) if pd.notna(x) and x != '' else 0", kept as it is when it is
\* neither 0 nor 1, and 0 on ValueError/TypeError
AttendanceGrade(cell_value) == Grade(cell_value)

AttendanceFill(grade) ==
  IF grade = Int2F(1) THEN "present_fill"
  ELSE IF FIsZero(grade) THEN "absent_fill" ELSE "none"

\* AttendanceLoop as it would be if every value other than 0 counted as present
RECURSIVE AttendanceLoop_NonZeroPresent(_, _, _)
AttendanceLoop_NonZeroPresent(columns, row, acc) ==
  IF columns = << >> THEN acc
  ELSE LET date_col == Head(columns)
           grade == AttendanceGrade(row.cells[date_col])
       IN  AttendanceLoop_NonZeroPresent(Tail(columns), row,
             [ws |-> Append(acc.ws, WsRow(acc.current_row, "date", Str(date_col), Num(grade), None, None, AttendanceFill(grade))),
              current_row |-> acc.current_row + 1,
              total_present |-> IF ~ FIsZero(grade) THEN acc.total_present + 1 ELSE acc.total_present,
              total_days |-> acc.total_days + 1])

\* "for date_col in attendance_columns"; acc carries ws, current_row,
\* total_present and total_days
RECURSIVE AttendanceLoop(_, _, _)
AttendanceLoop(columns, row, acc) ==
  IF columns = << >> THEN acc
  ELSE LET date_col == Head(columns)
           grade == AttendanceGrade(row.cells[date_col])
       IN  AttendanceLoop(Tail(columns), row,
             [ws |-> Append(acc.ws, WsRow(acc.current_row, "date", Str(date_col), Num(grade), None, None, AttendanceFill(grade))),
              current_row |-> acc.current_row + 1,
              total_present |-> IF grade = Int2F(1) THEN acc.total_present + 1 ELSE acc.total_present,
              total_days |-> acc.total_days + 1])

\* "(total_present / total_days * 100) if total_days > 0 else 0"
AttendanceRate(total_present, total_days) ==
  IF total_days > 0 THEN FMul(Frac(total_present, total_days), Int2F(100)) ELSE Int2F(0)

\* The summary rows and the sheet as it is when the iteration ends
AttendanceSheetEnd(title, idx, st, rate) ==
  [title |-> title,
   idx |-> idx,
   ws |-> st.ws \o
          << WsRow(st.current_row + 1, "summary_banner", None, None, None, None, "header_fill"),
             WsRow(st.current_row + 2, "days_present", None, Num(Int2F(st.total_present)), None, None, "none"),
             WsRow(st.current_row + 3, "days_absent", None, Num(Int2F(st.total_days - st.total_present)), None, None, "none"),
             WsRow(st.current_row + 4, "total_days", None, Num(Int2F(st.total_days)), None, None, "none"),
             WsRow(st.current_row + 5, "attendance_rate", None, Num(Round1(rate)), None, None, "final_fill") >>,
   blocks |-> << >>,
   category_averages |-> << >>,
   weighted |-> FALSE,
   total_weighted_score |-> Int2F(0),
   total_weight_used |-> 0,
   total_excused |-> 0,
   total_present |-> st.total_present,
   total_days |-> st.total_days,
   total_absent |-> st.total_days - st.total_present,
   attendance_rate |-> rate]

AttendanceSummary(title, idx, st) ==
  AttendanceSheetEnd(title, idx, st, AttendanceRate(st.total_present, st.total_days))

\* The body of the loop of create_attendance_excel for a row that is not skipped.
AttendanceSheet(row, idx, names) ==
  [counter |-> Counter(row, idx, names)] @@
  AttendanceSummary(Title(row, idx, names), idx,
    AttendanceLoop(attendance_columns, row,
                   [ws |-> TopRows(row), current_row |-> HeaderRow + 1, total_present |-> 0, total_days |-> 0]))

(***************************************************************************)
(* is_date_column and detect_date_columns                                  *)
(***************************************************************************)

\* One piece of a regular expression matches the text t: "d" is
\* \d{lo,hi}, "s" is \s{lo,hi} and "lit" is one of the texts of set,
\* compared without regard to case (re.IGNORECASE); hi = -1 is no limit
PieceOK(piece, t) ==
  CASE piece.kind = "d" ->
         Len(t) >= piece.lo /\ (piece.hi < 0 \/ Len(t) <= piece.hi) /\ IsDigits(t)
    [] piece.kind = "s" ->
         Len(t) >= piece.lo /\ (piece.hi < 0 \/ Len(t) <= piece.hi) /\ \A i \in 1..Len(t) : t[i] = " "
    [] piece.kind = "lit" -> Lower(t) \in piece.set

\* re.match(pattern, string, re.IGNORECASE) for a pattern "^...$" given as
\* the sequence of its pieces
RECURSIVE Match(_, _)
Match(pattern, string) ==
  IF pattern = << >> THEN string = << >>
  ELSE \E n \in 0..Len(string) :
         /\ PieceOK(Head(pattern), SubSeq(string, 1, n))
         /\ Match(Tail(pattern), SubSeq(string, n + 1, Len(string)))

\* A piece \d{lo,hi}
Digit(lo, hi) == [kind |-> "d", lo |-> lo, hi |-> hi, set |-> {}]

\* A piece \s+ (lo = 1) or \s* (lo = 0)
Space(lo) == [kind |-> "s", lo |-> lo, hi |-> 0 - 1, set |-> {}]

\* A piece that is one of the given texts
Lit(set) == [kind |-> "lit", lo |-> 0, hi |-> 0, set |-> set]

\* (Jan|Feb|...|Dec)
Mon == Lit({ << "j", "a", "n" >>,
           << "f", "e", "b" >>,
           << "m", "a", "r" >>,
           << "a", "p", "r" >>,
           << "m", "a", "y" >>,
           << "j", "u", "n" >>,
           << "j", "u", "l" >>,
           << "a", "u", "g" >>,
           << "s", "e", "p" >>,
           << "o", "c", "t" >>,
           << "n", "o", "v" >>,
           << "d", "e", "c" >> })

\* (January|February|...|December)
Month == Lit({ << "j", "a", "n", "u", "a", "r", "y" >>,
             << "f", "e", "b", "r", "u", "a", "r", "y" >>,
             << "m", "a", "r", "c", "h" >>,
             << "a", "p", "r", "i", "l" >>,
             << "m", "a", "y" >>,
             << "j", "u", "n", "e" >>,
             << "j", "u", "l", "y" >>,
             << "a", "u", "g", "u", "s", "t" >>,
             << "s", "e", "p", "t", "e", "m", "b", "e", "r" >>,
             << "o", "c", "t", "o", "b", "e", "r" >>,
             << "n", "o", "v", "e", "m", "b", "e", "r" >>,
             << "d", "e", "c", "e", "m", "b", "e", "r" >> })

\* The seven patterns of is_date_column, in order
date_patterns ==
  << << Digit(1, 2), Lit({ << "/" >> }), Digit(1, 2), Lit({ << "/" >> }), Digit(2, 4) >>,
     << Digit(1, 2), Lit({ << "-" >> }), Digit(1, 2), Lit({ << "-" >> }), Digit(2, 4) >>,
     << Digit(4, 4), Lit({ << "-" >> }), Digit(1, 2), Lit({ << "-" >> }), Digit(1, 2) >>,
     << Digit(1, 2), Lit({ << "." >> }), Digit(1, 2), Lit({ << "." >> }), Digit(2, 4) >>,
     << Mon, Space(1), Digit(1, 2), Lit({ << "," >>, << >> }), Space(0), Digit(2, 4) >>,
     << Digit(1, 2), Space(1), Mon, Space(1), Digit(2, 4) >>,
     << Month, Space(1), Digit(1, 2), Lit({ << "," >>, << >> }), Space(0), Digit(2, 4) >> >>

non_date_words ==
  { << "i", "d" >>,
  << "n", "a", "m", "e" >>,
  << "f", "i", "r", "s", "t" >>,
  << "l", "a", "s", "t" >>,
  << "s", "t", "u", "d", "e", "n", "t" >>,
  << "e", "x", "a", "m" >>,
  << "t", "e", "s", "t" >>,
  << "q", "u", "i", "z" >>,
  << "a", "s", "s", "i", "g", "n", "m", "e", "n", "t" >>,
  << "h", "o", "m", "e", "w", "o", "r", "k" >>,
  << "p", "a", "r", "t", "i", "c", "i", "p", "a", "t", "i", "o", "n" >>,
  << "a", "t", "t", "e", "n", "d", "a", "n", "c", "e" >>,
  << "g", "r", "a", "d", "e" >>,
  << "s", "c", "o", "r", "e" >>,
  << "t", "o", "t", "a", "l" >>,
  << "f", "i", "n", "a", "l" >>,
  << "m", "i", "d", "t", "e", "r", "m" >>,
  << "c", "i", "v", "i", "c", "s" >>,
  << "o", "t", "h", "e", "r" >> }

\* date_parser.parse(column_str, fuzzy=False) of dateutil, for the texts
\* of the model that reach it: year/month/day in digits is read as that
\* date, and a text with a word that is no part of a date raises
\* ValueError (ok = FALSE)
date_parser_parse(timestr) ==
  IF Match(<< Digit(4, 4), Lit({ << "/" >> }), Digit(1, 2), Lit({ << "/" >> }), Digit(1, 2) >>, timestr)
  THEN [ok |-> TRUE, year |-> DigitsVal(SubSeq(timestr, 1, 4))]
  ELSE [ok |-> FALSE, year |-> 0]

\* is_date_column for a column name that is a text
is_date_column(column_name) ==
  IF column_name = << >> THEN FALSE
  ELSE LET column_str == Strip(column_name)
       IN  IF \E i \in 1..Len(date_patterns) : Match(date_patterns[i], column_str) THEN TRUE
           ELSE IF IsDigits(column_str) \/ Len(column_str) < 4 THEN FALSE
           ELSE IF Lower(column_str) \in non_date_words THEN FALSE
           ELSE LET parsed == date_parser_parse(column_str)
                IN  parsed.ok /\ parsed.year >= 2000 /\ parsed.year <= 2100

\* "for col in columns": the columns that are left, and date_columns so far
RECURSIVE DetectLoop(_, _, _)
DetectLoop(columns, exclude_columns, date_columns) ==
  IF columns = << >> THEN date_columns
  ELSE LET col == Head(columns)
       IN  DetectLoop(Tail(columns), exclude_columns,
                      IF col \notin Range(exclude_columns) /\ is_date_column(col)
                      THEN Append(date_columns, col) ELSE date_columns)

\* detect_date_columns as it would be if the exclude list were not looked at
detect_date_columns_IgnoreExclude(columns, exclude_columns) == DetectLoop(columns, << >>, << >>)

\* detect_date_columns; exclude_columns = None is the empty list
detect_date_columns(columns, exclude_columns) == DetectLoop(columns, exclude_columns, << >>)

\* A call of detect_date_columns
DetectDates ==
  /\ pc = "detect"
  /\ auto_detected_dates' = detect_date_columns(available_columns, exclude_list)
  /\ pc' = "detected"
  /\ UNCHANGED << inputs, df_sorted, categorized, uncategorized, pos, sheetnames, sheets,
                  excel_output, available_columns, exclude_list >>

(***************************************************************************)
(* The steps: one per iteration of "for idx, row in df_sorted.iterrows()"  *)
(***************************************************************************)

\* CurIdx as it would be if idx were the position in the sorted frame
CurIdx_Position == pos - 1

\* "for idx, row in df_sorted.iterrows()"
CurIdx == df_sorted[pos].idx

CurRow == df_sorted[pos].row

Looping == pc = "loop" /\ pos <= Len(df_sorted)

\* wb.create_sheet(title=...): the sheet is added after the existing ones
create_sheet(sheet) ==
  /\ sheetnames' = Append(sheetnames, sheet.title)
  /\ sheets' = Append(sheets, sheet)

\* create_student_excel: an iteration that creates a sheet
StudentRow ==
  /\ mode = "grades"
  /\ Looping
  /\ ~ SkipRow(CurRow)
  /\ create_sheet(StudentSheet(CurRow, CurIdx, sheetnames))
  /\ pos' = pos + 1
  /\ UNCHANGED << config, pc, excel_output >>

\* create_student_excel: an iteration that ends at "continue"
StudentSkip ==
  /\ mode = "grades"
  /\ Looping
  /\ SkipRow(CurRow)
  /\ pos' = pos + 1
  /\ UNCHANGED << config, sheetnames, sheets, pc, excel_output >>

\* create_attendance_excel: an iteration that creates a sheet
AttendanceRow ==
  /\ mode = "attendance"
  /\ Looping
  /\ ~ SkipRow(CurRow)
  /\ create_sheet(AttendanceSheet(CurRow, CurIdx, sheetnames))
  /\ pos' = pos + 1
  /\ UNCHANGED << config, pc, excel_output >>

\* create_attendance_excel: an iteration that ends at "continue"
AttendanceSkip ==
  /\ mode = "attendance"
  /\ Looping
  /\ SkipRow(CurRow)
  /\ pos' = pos + 1
  /\ UNCHANGED << config, sheetnames, sheets, pc, excel_output >>

\* wb.save(output) after the loop, and the return of the report
Save ==
  /\ pc = "loop"
  /\ pos > Len(df_sorted)
  /\ pc' = "saved"
  /\ excel_output' = [sheetnames |-> sheetnames, sheets |-> sheets]
  /\ UNCHANGED << config, pos, sheetnames, sheets >>

\* No report has finished yet
NoOutput == [sheetnames |-> << >>, sheets |-> << "none" >>]

\* The categorization a report works with: create_student_excel calls
\* categorize_columns, create_attendance_excel has none.
Categorization ==
  IF mode = "grades" THEN categorize_columns(grade_columns, category_keywords)
  ELSE [categorized |-> << >>, uncategorized |-> << >>]

\* Prepare as it would be if the sort key were added to the caller's table
\* and not to a copy of it
Prepare_NoCopy ==
  /\ pc = "start"
  /\ categorized' = Categorization.categorized
  /\ uncategorized' = Categorization.uncategorized
  /\ df_sorted' = sort_values(df)
  /\ pc' = "loop"
  /\ unique_headers' = Append(unique_headers, << "_", "s", "o", "r", "t", "_", "k", "e", "y" >>)
  /\ UNCHANGED << mode, df, grade_columns, category_keywords, show_category_averages,
                  category_max_points, category_weights, item_max_points, attendance_columns,
                  headers, pos, sheetnames, sheets, excel_output, detection >>

\* The start of a report up to the loop: the categorization and the sort
Prepare ==
  /\ pc = "start"
  /\ categorized' = Categorization.categorized
  /\ uncategorized' = Categorization.uncategorized
  /\ df_sorted' = sort_values(df)
  /\ pc' = "loop"
  /\ UNCHANGED << inputs, pos, sheetnames, sheets, excel_output, detection >>

\* Generate as it would be if the workbook of the earlier report were kept
Generate_SameWorkbook ==
  /\ pc = "saved"
  /\ pos' = 1
  /\ pc' = "start"
  /\ UNCHANGED << config, sheetnames, sheets, excel_output >>

\* The report is asked for again with the same dataset and settings:
\* "wb = Workbook()" and "wb.remove(wb.active)" give it an empty workbook.
Generate ==
  /\ pc = "saved"
  /\ sheetnames' = << >>
  /\ sheets' = << >>
  /\ pos' = 1
  /\ pc' = "start"
  /\ UNCHANGED << config, excel_output >>

(***************************************************************************)
(* parse_numbers_file: the column names from the first row of the table    *)
(***************************************************************************)

Column_ == << "C", "o", "l", "u", "m", "n", "_" >>

\* "for i, h in enumerate(headers)": the name for header h at position i
\* (a missing header was read as "")
ProcessedHeader(h, i) ==
  IF h = Str(<< >>) THEN Column_ \o NatStr(i + 1) ELSE PyStr(h)

processed_headers(hs) == [i \in 1..Len(hs) |-> ProcessedHeader(hs[i], i - 1)]

\* "for h in processed_headers", carrying seen and unique_headers
RECURSIVE UniqueLoop(_, _, _)
UniqueLoop(processed, seen, unique) ==
  IF processed = << >> THEN unique
  ELSE LET h == Head(processed)
       IN  IF h \in DOMAIN seen
           THEN UniqueLoop(Tail(processed), [seen EXCEPT ![h] = @ + 1],
                           Append(unique, h \o << "_" >> \o NatStr(seen[h] + 1)))
           ELSE UniqueLoop(Tail(processed), (h :> 0) @@ seen, Append(unique, h))

\* The header part of parse_numbers_file
ParseHeaders ==
  /\ pc = "parse"
  /\ unique_headers' = UniqueLoop(processed_headers(headers), << >>, << >>)
  /\ pc' = "parsed"
  /\ UNCHANGED << mode, df, grade_columns, category_keywords, show_category_averages,
                  category_max_points, category_weights, item_max_points, attendance_columns,
                  headers, df_sorted, categorized, uncategorized, pos, sheetnames, sheets,
                  excel_output, detection >>

(***************************************************************************)
(* Inputs                                                                  *)
(***************************************************************************)

T_Smith == << "S", "m", "i", "t", "h" >>

T_smith_sp == << " ", "s", "m", "i", "t", "h", " " >>

T_sp_Smith == << " ", "S", "m", "i", "t", "h" >>

T_Adams == << "A", "d", "a", "m", "s" >>

T_John == << "J", "o", "h", "n" >>

T_John_1 == << "J", "o", "h", "n", "_", "1" >>

T_AB == << "A", "/", "B" >>

T_Jn == << "J", ":", "n" >>

T_Long30 == << "W", "o", "l", "f", "e", "s", "c", "h", "l", "e", "g", "e", "l", "s", "t", "e", "i", "n", "h", "a", "u", "s", "e", "n", "b", "e", "r", "g", "e", "r" >>

T_1 == << "1" >>

T_sp == << " ", " " >>

Exams == << "E", "x", "a", "m", "s" >>

Quizzes == << "Q", "u", "i", "z", "z", "e", "s" >>

Assignments == << "A", "s", "s", "i", "g", "n", "m", "e", "n", "t", "s" >>

K_exam == << "e", "x", "a", "m" >>

K_quiz == << "Q", "u", "i", "z" >>

K_hw == << "h", "w" >>

C_FinalExamQuiz == << "F", "i", "n", "a", "l", " ", "E", "x", "a", "m", " ", "Q", "u", "i", "z" >>

C_Quiz1 == << "Q", "u", "i", "z", " ", "1" >>

C_HW1 == << "H", "W", " ", "1" >>

C_ID == << "I", "D" >>

C_First == << "F", "i", "r", "s", "t" >>

C_Last == << "L", "a", "s", "t" >>

\* The columns chosen as ID, first name and last name
IdentifierColumns == << C_ID, C_First, C_Last >>

D_0105 == << "1", "/", "5" >>

D_0106 == << "1", "/", "6" >>

T_e_sp == << " ", "e", " " >>

T_abc == << "a", "b", "c" >>

T_80 == << "8", "0" >>

T_m5 == << "-", "5" >>

\* 22 characters: with ", John_1" a name of 30 characters that ends in "_1"
T_Long22 == SubSeq(T_Long30, 1, 22)

\* 31 characters, all of them invalid in a sheet title
T_Q31 == Rep(<< "?" >>, MaxTitle)

Text0 == << >>

\* Keyword maps, in their configured order
KM_ExamsQuizzes == << << Exams, << K_exam >> >>, << Quizzes, << K_quiz >> >> >>

KM_QuizzesExams == << << Quizzes, << K_quiz >> >>, << Exams, << K_exam >> >> >>

\* Every column falls in a category
KM_ExamsAssignments == << << Exams, << K_exam, K_quiz >> >>, << Assignments, << K_hw >> >> >>

\* A category with two keywords
KM_Exams == << << Exams, << K_exam, K_quiz >> >> >>

KM_Empty == << >>

KeywordMaps == { KM_ExamsQuizzes, KM_QuizzesExams, KM_ExamsAssignments, KM_Exams, KM_Empty }

\* Weights as the settings editor stores them: integers in 0..100
W_Empty == << >>

W_Half == (Exams :> 50) @@ (Quizzes :> 50) @@ (Other :> 0)

W_Partial == (Exams :> 25) @@ (Other :> 30)

WeightMaps == { W_Empty, W_Half, W_Partial }

\* Default max points as the settings editor stores them: integers >= 1
MP_Default == (Exams :> 100) @@ (Other :> 100)

MP_Mixed == (Exams :> 100) @@ (Quizzes :> 10) @@ (Other :> 50)

IM_Empty == << >>

IM_Quiz == (C_Quiz1 :> 20)

\* [category_max_points, item_max_points]
MaxPointSettings == { << MP_Default, IM_Empty >>, << MP_Mixed, IM_Quiz >> }

GradeColumns == << C_FinalExamQuiz, C_Quiz1, C_HW1 >>

DateColumns == << D_0105, D_0106 >>

\* The values the grade cells of each column are drawn from
GradeCells ==
  (C_FinalExamQuiz :> { Str(E), Str(T_e_sp), NaN, Num(Int2F(90)), Str(T_80), Num(Int2F(0)) }) @@
  (C_Quiz1 :> { Str(T_e_sp), Str(Text0), Str(T_abc), Num(Int2F(0)), Num(Int2F(60)), Str(T_m5) }) @@
  (C_HW1 :> { Str(E), Num(Int2F(90)), Str(T_m5) })

GradeRows == { f \in [Range(GradeColumns) -> UNION { GradeCells[c] : c \in Range(GradeColumns) }] :
                 \A c \in Range(GradeColumns) : f[c] \in GradeCells[c] }

StudentRecord(id, first, last, cells) == [id |-> id, first_name |-> first, last_name |-> last, cells |-> cells]

\* A row of the table that holds no value at all
BlankRow(columns) == StudentRecord(Str(Text0), Str(Text0), Str(Text0), [c \in Range(columns) |-> Str(Text0)])

\* The identities the rows of the sheet-name datasets are drawn from: <<id, first, last>>
Identities ==
  { << Str(T_1), Str(T_John), Str(T_Smith) >>,
    << Str(T_1), Str(T_John), Str(T_smith_sp) >>,
    << Str(T_1), Str(T_John_1), Str(T_Smith) >>,
    << Num(Int2F(7)), Str(Text0), NaN >>,
    << NaN, Str(Text0), Str(T_sp) >>,
    << Str(T_1), Str(T_Jn), Str(T_AB) >>,
    << Str(T_1), Str(T_John), Str(T_Long30) >>,
    << NaN, Str(Text0), Str(T_Q31) >> }

MaxRows == 3

\* The cells of the rows of the sheet-name datasets
FixedCells(columns) == [c \in Range(columns) |-> IF c = Head(columns) THEN Str(E) ELSE Num(Int2F(1))]

NameRows(columns) == { StudentRecord(i[1], i[2], i[3], FixedCells(columns)) : i \in Identities }

NameDatasets(columns) == UNION { [1..n -> NameRows(columns)] : n \in 1..MaxRows }

Start ==
  /\ headers = [i \in 1..Len(IdentifierColumns \o grade_columns) |-> Str((IdentifierColumns \o grade_columns)[i])]
  /\ unique_headers = IdentifierColumns \o grade_columns
  /\ categorized = Categorization.categorized
  /\ uncategorized = Categorization.uncategorized
  /\ excel_output = NoOutput
  /\ df_sorted = sort_values(df)
  /\ pos = 1
  /\ sheetnames = << >>
  /\ sheets = << >>
  /\ NoDetection
  /\ pc = "loop"

\* Datasets of many identities, either report, one configuration
InitNames ==
  /\ mode \in { "grades", "attendance" }
  /\ grade_columns = (IF mode = "grades" THEN GradeColumns ELSE DateColumns)
  /\ attendance_columns = (IF mode = "grades" THEN << >> ELSE DateColumns)
  /\ df \in NameDatasets(grade_columns)
  /\ category_keywords = KM_ExamsQuizzes
  /\ show_category_averages = TRUE
  /\ category_max_points = MP_Default
  /\ category_weights = W_Half
  /\ item_max_points = IM_Empty
  /\ Start

\* A second student and a blank row, the same in every grade dataset
Student2 == StudentRecord(Str(T_1), Str(T_John), Str(T_Adams),
                          (C_FinalExamQuiz :> Str(E)) @@ (C_Quiz1 :> Str(T_80)) @@ (C_HW1 :> NaN))

\* One student with every combination of grade cells, every configuration
InitGrades ==
  /\ mode = "grades"
  /\ grade_columns = GradeColumns
  /\ attendance_columns = << >>
  /\ \E cells \in GradeRows :
       df = << StudentRecord(Str(T_1), Str(T_John), Str(T_Smith), cells), BlankRow(GradeColumns), Student2 >>
  /\ category_keywords \in KeywordMaps
  /\ show_category_averages \in BOOLEAN
  /\ \E mp \in MaxPointSettings : category_max_points = mp[1] /\ item_max_points = mp[2]
  /\ category_weights \in WeightMaps
  /\ Start

MaxSameName == 101

\* Many students of one long name, and a blank row
InitSameName ==
  /\ mode = "grades"
  /\ grade_columns = GradeColumns
  /\ attendance_columns = << >>
  /\ \E n \in (MaxSameName - 1)..MaxSameName :
       df = [i \in 1..n |-> StudentRecord(Str(T_1), Str(T_John), Str(T_Long30), FixedCells(GradeColumns))]
            \o << BlankRow(GradeColumns) >>
  /\ category_keywords = KM_ExamsQuizzes
  /\ show_category_averages = FALSE
  /\ category_max_points = MP_Default
  /\ category_weights = W_Empty
  /\ item_max_points = IM_Empty
  /\ Start

MaxColumns == 3

\* A category with three keywords, before a category that shares one
KM_ThreeKeywords == << << Assignments, << K_hw, K_quiz, K_exam >> >>, << Exams, << K_exam >> >> >>

CategorizeMaps == KeywordMaps \cup { KM_ThreeKeywords }

ColumnNames == { C_FinalExamQuiz, C_Quiz1, C_HW1 }

\* Lists of column names, with repetitions
ColumnLists == UNION { [1..n -> ColumnNames] : n \in 0..MaxColumns }

\* A report over a dataset without rows or, when no column name is given
\* twice, with one student, for every list of columns and every keyword
\* map, from the call on
InitCategorize ==
  /\ mode = "grades"
  /\ grade_columns \in ColumnLists
  /\ \E n \in 0..1 :
       /\ n = 1 => Cardinality(Range(grade_columns)) = Len(grade_columns)
       /\ df = [i \in 1..n |-> StudentRecord(Str(T_1), Str(T_John), Str(T_Smith), FixedCells(grade_columns))]
  /\ attendance_columns = << >>
  /\ category_keywords \in CategorizeMaps
  /\ show_category_averages = TRUE
  /\ category_max_points = MP_Default
  /\ category_weights = W_Half
  /\ item_max_points = IM_Empty
  /\ headers = [i \in 1..Len(IdentifierColumns \o grade_columns) |-> Str((IdentifierColumns \o grade_columns)[i])]
  /\ unique_headers = IdentifierColumns \o grade_columns
  /\ categorized = << >>
  /\ uncategorized = << >>
  /\ df_sorted = << >>
  /\ pos = 1
  /\ sheetnames = << >>
  /\ sheets = << >>
  /\ excel_output = NoOutput
  /\ NoDetection
  /\ pc = "start"

NextCategorize == Prepare \/ StudentRow \/ Save

\* The identities of the datasets a report is asked for twice with
RepeatIdentities ==
  { << Str(T_1), Str(T_John), Str(T_Smith) >>,
    << Str(T_1), Str(T_John), Str(T_smith_sp) >>,
    << Str(T_1), Str(T_John), Str(T_sp_Smith) >>,
    << Str(T_1), Str(T_John_1), Str(T_Long22) >>,
    << Num(Int2F(7)), Str(Text0), NaN >>,
    << NaN, Str(Text0), Str(T_sp) >> }

RepeatRows(columns) == { StudentRecord(i[1], i[2], i[3], FixedCells(columns)) : i \in RepeatIdentities }

\* Either report, over datasets with equal names, to be asked for again
InitRepeat ==
  /\ mode \in { "grades", "attendance" }
  /\ grade_columns = (IF mode = "grades" THEN GradeColumns ELSE DateColumns)
  /\ attendance_columns = (IF mode = "grades" THEN << >> ELSE DateColumns)
  /\ df \in UNION { [1..n -> RepeatRows(grade_columns)] : n \in 1..MaxRows }
  /\ category_keywords = KM_ExamsQuizzes
  /\ show_category_averages = TRUE
  /\ category_max_points = MP_Default
  /\ category_weights = W_Half
  /\ item_max_points = IM_Empty
  /\ Start

NextRepeat == StudentRow \/ StudentSkip \/ AttendanceRow \/ AttendanceSkip \/ Save \/ Generate \/ Prepare

MaxHeaders == 3

H_A == << "A" >>

H_A_1 == << "A", "_", "1" >>

H_Column_2 == << "C", "o", "l", "u", "m", "n", "_", "2" >>

\* What a cell of the first row holds: a text, nothing (read as ""), a number
HeaderValues == { Str(H_A), Str(H_A_1), Str(H_Column_2), Str(Text0), Num(Int2F(1)) }

\* parse_numbers_file with the first row read, for every first row
InitHeaders ==
  /\ mode = "grades"
  /\ df = << >>
  /\ grade_columns = << >>
  /\ attendance_columns = << >>
  /\ category_keywords = KM_Empty
  /\ show_category_averages = TRUE
  /\ category_max_points = MP_Default
  /\ category_weights = W_Empty
  /\ item_max_points = IM_Empty
  /\ headers \in UNION { [1..n -> HeaderValues] : n \in 1..MaxHeaders }
  /\ unique_headers = << >>
  /\ categorized = << >>
  /\ uncategorized = << >>
  /\ df_sorted = << >>
  /\ pos = 1
  /\ sheetnames = << >>
  /\ sheets = << >>
  /\ excel_output = NoOutput
  /\ NoDetection
  /\ pc = "parse"

NextHeaders == ParseHeaders

\* Max points of 0, which create_student_excel accepts when it is called
\* with them; the settings editor stores integers >= 1 only
MP_Zero == (Exams :> 0) @@ (Quizzes :> 10) @@ (Other :> 0)

IM_Zero == (C_Quiz1 :> 0)

\* [category_max_points, item_max_points]
ZeroMaxSettings == { << MP_Zero, IM_Empty >>, << MP_Mixed, IM_Zero >> }

\* create_student_excel called with max points of 0
InitZeroMax ==
  /\ mode = "grades"
  /\ grade_columns = GradeColumns
  /\ attendance_columns = << >>
  /\ \E cells \in GradeRows :
       df = << StudentRecord(Str(T_1), Str(T_John), Str(T_Smith), cells), BlankRow(GradeColumns), Student2 >>
  /\ category_keywords \in KeywordMaps
  /\ show_category_averages = TRUE
  /\ \E mp \in ZeroMaxSettings : category_max_points = mp[1] /\ item_max_points = mp[2]
  /\ category_weights \in WeightMaps
  /\ Start

\* The values the attendance cells are drawn from
AttendanceCells ==
  { Num(Int2F(1)), Num(Int2F(0)), Num(Int2F(2)), Num(Frac(1, 2)), Num(Int2F(0 - 1)),
    Str(E), Str(Text0), Str(T_abc), Str(T_1), NaN }

\* One student with every combination of attendance cells, a blank row and
\* a second student; one or both date columns selected, or none, which
\* create_attendance_excel accepts when it is called with none
InitAttendance ==
  /\ mode = "attendance"
  /\ grade_columns = DateColumns
  /\ attendance_columns \in { DateColumns, << D_0106 >>, << >> }
  /\ \E cells \in [Range(DateColumns) -> AttendanceCells] :
       df = << StudentRecord(Str(T_1), Str(T_John), Str(T_Smith), cells), BlankRow(DateColumns),
               StudentRecord(Str(T_1), Str(T_John), Str(T_Adams), FixedCells(DateColumns)) >>
  /\ category_keywords = KM_Empty
  /\ show_category_averages = TRUE
  /\ category_max_points = MP_Default
  /\ category_weights = W_Empty
  /\ item_max_points = IM_Empty
  /\ Start

\* Column names for detect_date_columns
N_MDY == << "1", "/", "5", "/", "2", "4" >>

N_Dotted == << " ", "1", ".", "5", ".", "2", "4", " " >>

N_Mon == << "j", "a", "n", " ", "5", ",", " ", "2", "0", "2", "4" >>

N_Short == << "1", "/", "5" >>

N_Exam == << "E", "x", "a", "m" >>

N_YMD == << "2", "0", "2", "4", "/", "0", "1", "/", "0", "5" >>

N_YMD1999 == << "1", "9", "9", "9", "/", "0", "1", "/", "0", "5" >>

N_HW == << "H", "W", " ", "1" >>

DetectNames == { N_MDY, N_Dotted, N_Mon, N_Short, N_Exam, N_YMD, N_YMD1999, N_HW }

\* Exclude lists: none, a date column, two columns that the parser is asked about
ExcludeLists == { << >>, << N_MDY >>, << N_YMD, N_HW >> }

\* detect_date_columns called with every list of up to MaxColumns of the
\* column names, repetitions included, and every exclude list
InitDetect ==
  /\ mode = "attendance"
  /\ df = << >>
  /\ grade_columns = << >>
  /\ attendance_columns = << >>
  /\ category_keywords = KM_Empty
  /\ show_category_averages = TRUE
  /\ category_max_points = MP_Default
  /\ category_weights = W_Empty
  /\ item_max_points = IM_Empty
  /\ headers = << >>
  /\ unique_headers = << >>
  /\ categorized = << >>
  /\ uncategorized = << >>
  /\ df_sorted = << >>
  /\ pos = 1
  /\ sheetnames = << >>
  /\ sheets = << >>
  /\ excel_output = NoOutput
  /\ available_columns \in UNION { [1..n -> DetectNames] : n \in 0..MaxColumns }
  /\ exclude_list \in ExcludeLists
  /\ auto_detected_dates = << >>
  /\ pc = "detect"

NextDetect == DetectDates

NextAttendance == AttendanceRow \/ AttendanceSkip \/ Save

NextStudent == StudentRow \/ StudentSkip \/ Save

Next == StudentRow \/ StudentSkip \/ AttendanceRow \/ AttendanceSkip \/ Save

Init == InitNames \/ InitGrades

Spec == Init /\ [][Next]_vars

SpecNames == InitNames /\ [][Next]_vars

SpecGrades == InitGrades /\ [][NextStudent]_vars

SpecSameName == InitSameName /\ [][NextStudent]_vars

SpecCategorize == InitCategorize /\ [][NextCategorize]_vars

SpecRepeat == InitRepeat /\ [][NextRepeat]_vars

SpecHeaders == InitHeaders /\ [][NextHeaders]_vars

SpecZeroMax == InitZeroMax /\ [][NextStudent]_vars

SpecAttendance == InitAttendance /\ [][NextAttendance]_vars

SpecDetect == InitDetect /\ [][NextDetect]_vars

(***************************************************************************)
(* Properties of the sheet names and of the rows that get a sheet          *)
(***************************************************************************)

\* A text is blank when nothing is left of it after trimming whitespace.
Blank(s) == \A i \in 1..Len(s) : s[i] = " "

\* A value of a row is empty when it is missing or blank.
EmptyValue(x) == x.t = "nan" \/ Blank(PyStr(x))

\* A row is valid when one of its ID, first name and last name is not empty.
ValidRow(row) == ~ EmptyValue(row.id) \/ ~ EmptyValue(row.first_name) \/ ~ EmptyValue(row.last_name)

\* The trimmed text of a value of a row, empty for a missing value.
Trimmed(x) == IF x.t = "nan" THEN << >> ELSE Strip(PyStr(x))

ForbiddenChars == { "[", "]", ":", "*", "?", "/", "\\" }

Allowed(c) == c \notin ForbiddenChars

\* The candidate the specification gives for a row with original index idx.
Candidate(row, idx) ==
  LET raw == Trimmed(row.last_name) \o << ",", " " >> \o Trimmed(row.first_name)
      cut == IF Len(raw) > 31 THEN SubSeq(raw, 1, 31) ELSE raw
      kept == SelectSeq(cut, Allowed)
  IN  IF kept = << >> \/ kept = << ",", " " >>
      THEN << "S", "t", "u", "d", "e", "n", "t", "_" >> \o NatStr(idx)
      ELSE kept

\* The name the specification gives for the N-th attempt after a collision.
Numbered(cand, n) ==
  (IF Len(cand) > 28 THEN SubSeq(cand, 1, 28) ELSE cand) \o << "_" >> \o NatStr(n)

\* The names in use when sheet k was allocated, and the row sheet k is for.
UsedBefore(k) == { sheetnames[j] : j \in 1..(k - 1) }

RowOf(k) == df[sheets[k].idx + 1]

CandidateOf(k) == Candidate(RowOf(k), sheets[k].idx)

\* The text written next to "ID:", "First Name:" and "Last Name:" on sheet k.
Identity(k) == << sheets[k].ws[1].b.s, sheets[k].ws[2].b.s, sheets[k].ws[3].b.s >>

\* C5: the sheet names of a run are pairwise distinct, every sheet carries
\* the name allocated for it, and when the workbook is saved there are
\* exactly as many sheets as the dataset has valid rows.
C5_DistinctNamesOnePerValidRow ==
  /\ \A i, j \in 1..Len(sheetnames) : i # j => sheetnames[i] # sheetnames[j]
  /\ Len(sheets) = Len(sheetnames)
  /\ \A k \in 1..Len(sheets) : sheets[k].title = sheetnames[k]
  /\ pc = "saved" => Len(sheets) = Cardinality({ i \in 1..Len(df) : ValidRow(df[i]) })

\* C5 happens: a saved workbook of two sheets for a dataset of three rows,
\* one of them invalid, where the two valid rows have the same candidate.
C5_Witness ==
  /\ pc = "saved"
  /\ Len(df) = 3
  /\ Len(sheets) = 2
  /\ \E i \in 1..Len(df) : ~ ValidRow(df[i])
  /\ CandidateOf(1) = CandidateOf(2)

\* C6: every sheet name has at most 31 characters, whatever the number of
\* collisions it was produced after.
C6_AtMost31Characters == \A k \in 1..Len(sheetnames) : Len(sheetnames[k]) <= 31

\* C7: when the candidate of a row is already in use, the name chosen is the
\* first 28 characters of the candidate followed by "_N", N being the
\* smallest integer from 1 on for which that name is not in use.
C7_SmallestFreeSuffix ==
  \A k \in 1..Len(sheets) :
    CandidateOf(k) \in UsedBefore(k) =>
      \E n \in 1..k :
        /\ sheetnames[k] = Numbered(CandidateOf(k), n)
        /\ Numbered(CandidateOf(k), n) \notin UsedBefore(k)
        /\ \A m \in 1..(n - 1) : Numbered(CandidateOf(k), m) \in UsedBefore(k)

\* C7 happens: a candidate longer than 28 characters is in use, and so is
\* its first 28 characters followed by "_1", so that the name chosen is the
\* first 28 characters followed by "_2".
C7_Witness ==
  \E k \in 1..Len(sheets) :
    /\ CandidateOf(k) \in UsedBefore(k)
    /\ Len(CandidateOf(k)) > 28
    /\ Numbered(CandidateOf(k), 1) \in UsedBefore(k)
    /\ sheetnames[k] = SubSeq(CandidateOf(k), 1, 28) \o << "_", "2" >>

\* C8: the sheet of a row shows the identity of the row with the sheet's
\* original index, and unless its candidate is in use its name is the
\* candidate: "{last}, {first}" cut to 31 characters and stripped of the
\* forbidden characters, or "Student_{original index}" when that is empty
\* or ", ".
C8_CandidateOrFallback ==
  \A k \in 1..Len(sheets) :
    /\ sheets[k].idx \in 0..(Len(df) - 1)
    /\ Identity(k) = << Trimmed(RowOf(k).id), Trimmed(RowOf(k).first_name), Trimmed(RowOf(k).last_name) >>
    /\ CandidateOf(k) \notin UsedBefore(k) => sheetnames[k] = CandidateOf(k)

\* C8 happens: a sheet is named by the fallback with an original index that
\* is not the row's position after sorting, and another by a candidate that
\* lost forbidden characters.
C8_Witness ==
  /\ \E k \in 1..Len(sheets) :
       /\ sheetnames[k] = << "S", "t", "u", "d", "e", "n", "t", "_" >> \o NatStr(sheets[k].idx)
       /\ \E p \in 1..Len(df_sorted) : df_sorted[p].idx = sheets[k].idx /\ p # sheets[k].idx + 1
  /\ \E k \in 1..Len(sheets) : sheetnames[k] = << "A", "B", ",", " ", "J", "n" >>

\* C9: no sheet name contains one of the characters [ ] : * ? / \.
C9_NoForbiddenCharacter ==
  \A k \in 1..Len(sheetnames) : \A i \in 1..Len(sheetnames[k]) : sheetnames[k][i] \notin ForbiddenChars

\* C9 happens: sheets exist for rows whose names hold forbidden characters,
\* named by the candidate, by the fallback and by the collision handling.
C9_Witness ==
  /\ \E k \in 1..Len(sheets) :
       /\ \E i \in 1..Len(Identity(k)[3]) : Identity(k)[3][i] \in ForbiddenChars
       /\ sheetnames[k] = CandidateOf(k)
       /\ Len(sheetnames[k]) < 8
  /\ \E k \in 1..Len(sheets) :
       /\ \E i \in 1..Len(Identity(k)[3]) : Identity(k)[3][i] \in ForbiddenChars
       /\ sheetnames[k] = << "S", "t", "u", "d", "e", "n", "t", "_" >> \o NatStr(sheets[k].idx)
  /\ \E k \in 1..Len(sheets) :
       /\ \E i \in 1..Len(Identity(k)[3]) : Identity(k)[3][i] \in ForbiddenChars
       /\ CandidateOf(k) \in UsedBefore(k)

\* C10: a step of the loop over a valid row adds exactly one sheet and one
\* name, for that row; a step over a row whose ID, first name and last name
\* are all empty after trimming leaves the sheets and the names unchanged.
C10_SheetIffValidRow ==
  [][pos' = pos + 1 =>
       IF ValidRow(df_sorted[pos].row)
       THEN /\ Len(sheets') = Len(sheets) + 1
            /\ SubSeq(sheets', 1, Len(sheets)) = sheets
            /\ sheets'[Len(sheets')].idx = df_sorted[pos].idx
            /\ Len(sheetnames') = Len(sheetnames) + 1
            /\ SubSeq(sheetnames', 1, Len(sheetnames)) = sheetnames
       ELSE sheets' = sheets /\ sheetnames' = sheetnames]_vars

\* C10 happens: the loop has passed a row of whitespace and missing values
\* without a sheet, and a row with an ID and no names with a sheet.
C10_Witness ==
  /\ pos = Len(df_sorted) + 1
  /\ Len(sheets) = Len(df_sorted) - 1
  /\ \E p \in 1..Len(df_sorted) :
       /\ ~ ValidRow(df_sorted[p].row)
       /\ df_sorted[p].row.last_name.t = "str" /\ df_sorted[p].row.last_name.s # << >>
       /\ \A k \in 1..Len(sheets) : sheets[k].idx # df_sorted[p].idx
  /\ \E k \in 1..Len(sheets) :
       /\ ~ EmptyValue(RowOf(k).id)
       /\ EmptyValue(RowOf(k).first_name) /\ EmptyValue(RowOf(k).last_name)

(***************************************************************************)
(* Properties of the category percentages and of the weighted grade        *)
(***************************************************************************)

\* The excused marker: the trimmed, upper-cased text of the cell is "E".
ExcusedMarker(x) == x.t # "nan" /\ Upper(Strip(PyStr(x))) = << "E" >>

\* A cell that is missing, empty, or not convertible to a number.
Unusable(x) == x.t = "nan" \/ (x.t = "str" /\ (x.s = << >> \/ ~ ParseFloat(x.s).ok))

\* The columns of a block whose cell is not the excused marker, in order.
RECURSIVE Scored(_, _)
Scored(columns, row) ==
  IF columns = << >> THEN << >>
  ELSE (IF ExcusedMarker(row.cells[Head(columns)]) THEN << >> ELSE << Head(columns) >>)
       \o Scored(Tail(columns), row)

\* The max points of a column of a category: the override of the column,
\* else the default of the category, else 100.
PointsOf(category, col) ==
  IF col \in DOMAIN item_max_points THEN item_max_points[col]
  ELSE IF category \in DOMAIN category_max_points THEN category_max_points[category]
  ELSE 100

\* The earned score of a cell that is not the excused marker.
EarnedOf(x) == IF Unusable(x) THEN Int2F(0) ELSE IF x.t = "num" THEN x.v ELSE ParseFloat(x.s).v

RECURSIVE EarnedSum(_, _)
EarnedSum(columns, row) ==
  IF columns = << >> THEN Int2F(0)
  ELSE FAdd(EarnedOf(row.cells[Head(columns)]), EarnedSum(Tail(columns), row))

RECURSIVE PossibleSum(_, _)
PossibleSum(category, columns) ==
  IF columns = << >> THEN 0
  ELSE PointsOf(category, Head(columns)) + PossibleSum(category, Tail(columns))

\* The percentage stored for a category on a sheet.
Percentage(sheet, category) == Lookup(sheet.category_averages, category)

\* C1: for every student and every category, the earned and possible sums
\* run over the items that are not excused only, and the percentage of a
\* category with such an item is 100 * earned / possible.
C1_ExcusedItemsAddNothing ==
  \A k \in 1..Len(sheets) : \A i \in 1..Len(sheets[k].blocks) :
    LET b == sheets[k].blocks[i]
        scored == Scored(b.columns, RowOf(k))
    IN  /\ Len(b.grades) = Len(scored) /\ Len(b.max) = Len(scored)
        /\ FSum(b.grades) = EarnedSum(scored, RowOf(k))
        /\ FSum(b.max) = Int2F(PossibleSum(b.category, scored))
        /\ scored # << >> =>
             /\ b.category \in Keys(sheets[k].category_averages)
             /\ FMul(Percentage(sheets[k], b.category), Int2F(PossibleSum(b.category, scored)))
                  = FMul(Int2F(100), EarnedSum(scored, RowOf(k)))

\* C1 happens: a category holds the items 90/100 and Excused, and its
\* percentage is 90.
C1_Witness ==
  \E k \in 1..Len(sheets) : \E i \in 1..Len(sheets[k].blocks) :
    LET b == sheets[k].blocks[i]
    IN  /\ Len(b.columns) = 2
        /\ RowOf(k).cells[b.columns[1]] = Num(Int2F(90))
        /\ ExcusedMarker(RowOf(k).cells[b.columns[2]])
        /\ PointsOf(b.category, b.columns[1]) = 100
        /\ Percentage(sheets[k], b.category) = Int2F(90)

\* C2: an item whose cell is missing, empty or not convertible to a number,
\* and is not the excused marker, is written with the score 0 and is
\* counted: the lists of its category hold 0 and its max points at its
\* place among the items that are not excused.
C2_UnusableCellCountsAsZero ==
  \A k \in 1..Len(sheets) : \A i \in 1..Len(sheets[k].blocks) :
    LET b == sheets[k].blocks[i]
        scored == Scored(b.columns, RowOf(k))
    IN  /\ Len(b.grades) = Len(scored) /\ Len(b.max) = Len(scored)
        /\ \A j \in 1..Len(scored) :
             Unusable(RowOf(k).cells[scored[j]]) =>
               /\ b.grades[j] = Int2F(0)
               /\ b.max[j] = Int2F(PointsOf(b.category, scored[j]))
               /\ \E r \in 1..Len(sheets[k].ws) :
                    /\ sheets[k].ws[r].kind = "item"
                    /\ sheets[k].ws[r].a = Str(scored[j])
                    /\ sheets[k].ws[r].b = Num(Int2F(0))
                    /\ sheets[k].ws[r].c = Num(Int2F(PointsOf(b.category, scored[j])))
        /\ (b.grades = << Int2F(90), Int2F(0) >> /\ b.max = << Int2F(100), Int2F(100) >>) =>
             Percentage(sheets[k], b.category) = Int2F(45)

\* C2 happens: a category holds 90/100 and a cell that is not a number, out
\* of 100, and its percentage is 45; and a missing cell is counted as 0.
C2_Witness ==
  /\ \E k \in 1..Len(sheets) : \E i \in 1..Len(sheets[k].blocks) :
       LET b == sheets[k].blocks[i]
       IN  /\ Len(b.columns) = 2
           /\ RowOf(k).cells[b.columns[1]] = Num(Int2F(90))
           /\ RowOf(k).cells[b.columns[2]].t = "str"
           /\ RowOf(k).cells[b.columns[2]].s # << >>
           /\ Unusable(RowOf(k).cells[b.columns[2]])
           /\ b.grades = << Int2F(90), Int2F(0) >>
           /\ b.max = << Int2F(100), Int2F(100) >>
           /\ Percentage(sheets[k], b.category) = Int2F(45)
  /\ \E k \in 1..Len(sheets) : \E i \in 1..Len(sheets[k].blocks) :
       LET b == sheets[k].blocks[i]
       IN  /\ RowOf(k).cells[b.columns[1]].t = "nan"
           /\ b.grades[1] = Int2F(0)

\* The weight configured for a category, 0 when none is configured.
ConfiguredWeight(category) ==
  IF category \in DOMAIN category_weights THEN category_weights[category] ELSE 0

\* The sum of percentage * weight over the first n stored percentages.
RECURSIVE WeightedSum(_, _)
WeightedSum(results, n) ==
  IF n = 0 THEN Int2F(0)
  ELSE FAdd(WeightedSum(results, n - 1),
            Frac(results[n][2].n * ConfiguredWeight(results[n][1]), results[n][2].d))

RECURSIVE WeightSum(_, _)
WeightSum(results, n) ==
  IF n = 0 THEN 0 ELSE WeightSum(results, n - 1) + ConfiguredWeight(results[n][1])

\* C3: when the weighted section is written, the final weighted grade is
\* the sum of percentage * weight / 100 over the categories with a stored
\* percentage, and the total weight used is the sum of their configured
\* weights, a category without a configured weight counting as 0; the row
\* of the final grade shows both.
C3_WeightedGradeAndWeightUsed ==
  \A k \in 1..Len(sheets) :
    LET results == sheets[k].category_averages
    IN  sheets[k].weighted =>
          /\ FMul(sheets[k].total_weighted_score, Int2F(100)) = WeightedSum(results, Len(results))
          /\ sheets[k].total_weight_used = WeightSum(results, Len(results))
          /\ \E r \in 1..Len(sheets[k].ws) :
               /\ sheets[k].ws[r].kind = "final"
               /\ sheets[k].ws[r].b = Num(Round2(sheets[k].total_weighted_score))
               /\ sheets[k].ws[r].c = Num(Int2F(sheets[k].total_weight_used))

\* C3 happens: the percentages 80 and 60 with the weights 50 and 50 give
\* the final grade 70 and the weight used 100; and on another sheet a
\* category with a stored percentage has no configured weight.
C3_Witness ==
  \E k \in 1..Len(sheets) :
    /\ sheets[k].weighted
    /\ sheets[k].category_averages = << << Exams, Int2F(80) >>, << Quizzes, Int2F(60) >> >>
    /\ ConfiguredWeight(Exams) = 50 /\ ConfiguredWeight(Quizzes) = 50
    /\ sheets[k].total_weighted_score = Int2F(70)
    /\ sheets[k].total_weight_used = 100

\* The categories of a run: the configured ones and "Other".
Categories == Keys(category_keywords) \cup { << "O", "t", "h", "e", "r" >> }

\* C4: on every sheet a category has a stored percentage if and only if
\* one of its items is not excused; a category without one has no row in
\* the averages section and none in the weighted section.
C4_ResultIffScoredItem ==
  \A k \in 1..Len(sheets) :
    /\ Keys(sheets[k].category_averages) \subseteq Categories
    /\ \A c \in Categories :
         c \in Keys(sheets[k].category_averages) <=>
           \E i \in 1..Len(sheets[k].blocks) :
             /\ sheets[k].blocks[i].category = c
             /\ Scored(sheets[k].blocks[i].columns, RowOf(k)) # << >>
    /\ \A r \in 1..Len(sheets[k].ws) :
         sheets[k].ws[r].kind \in { "average", "weighted" } =>
           sheets[k].ws[r].a.s \in Keys(sheets[k].category_averages)
    /\ Cardinality({ r \in 1..Len(sheets[k].ws) : sheets[k].ws[r].kind = "weighted" })
         = IF sheets[k].weighted THEN Len(sheets[k].category_averages) ELSE 0

\* C4 happens: on one sheet a category whose items are all excused and a
\* configured category without items have no stored percentage, while
\* "Other" has one and the weighted section is written.
C4_Witness ==
  \E k \in 1..Len(sheets) :
    /\ sheets[k].weighted
    /\ \E i \in 1..Len(sheets[k].blocks) :
         /\ sheets[k].blocks[i].columns # << >>
         /\ Scored(sheets[k].blocks[i].columns, RowOf(k)) = << >>
         /\ sheets[k].blocks[i].category \notin Keys(sheets[k].category_averages)
    /\ \E c \in Keys(category_keywords) :
         /\ \A i \in 1..Len(sheets[k].blocks) : sheets[k].blocks[i].category # c
         /\ c \notin Keys(sheets[k].category_averages)
    /\ << "O", "t", "h", "e", "r" >> \in Keys(sheets[k].category_averages)

(***************************************************************************)
(* Properties of categorize_columns                                        *)
(***************************************************************************)

\* How often a column name occurs in a list.
Count(c, list) == Cardinality({ i \in 1..Len(list) : list[i] = c })

\* How often a column name occurs in the lists of the categories.
RECURSIVE CountCategorized(_, _)
CountCategorized(c, result) ==
  IF result = << >> THEN 0
  ELSE Count(c, Head(result)[2]) + CountCategorized(c, Tail(result))

\* The column names of the output.
OutputColumns == Range(uncategorized) \cup UNION { Range(categorized[i][2]) : i \in 1..Len(categorized) }

\* C11: after categorize_columns every column name occurs in the output as
\* often as in the input, counting the lists of all categories and the
\* uncategorized list together, no category is listed twice, and the
\* output holds no column name that is not in the input.
C11_EveryColumnExactlyOnce ==
  pc # "start" =>
    /\ \A i, j \in 1..Len(categorized) : i # j => categorized[i][1] # categorized[j][1]
    /\ OutputColumns \subseteq Range(grade_columns)
    /\ \A c \in Range(grade_columns) \cup OutputColumns :
         CountCategorized(c, categorized) + Count(c, uncategorized) = Count(c, grade_columns)

\* C11 happens: of three columns, one name given twice lands twice in one
\* category and the third column is uncategorized.
C11_Witness ==
  /\ pc = "loop"
  /\ Len(grade_columns) = 3
  /\ Len(uncategorized) = 1
  /\ Len(categorized) = 1
  /\ Len(categorized[1][2]) = 2
  /\ categorized[1][2][1] = categorized[1][2][2]

\* Two characters are the same letter when they differ in case at most.
SameLetter(a, b) == LowerChar(a) = LowerChar(b)

\* A keyword occurs in a column name, case ignored.
Occurs(keyword, col) ==
  \E off \in 0..(Len(col) - Len(keyword)) :
    \A j \in 1..Len(keyword) : SameLetter(col[off + j], keyword[j])

\* The positions, in the configured order, of the categories with a keyword
\* that occurs in the column name.
MatchingCategories(col) ==
  { i \in 1..Len(category_keywords) :
      \E j \in 1..Len(category_keywords[i][2]) : Occurs(category_keywords[i][2][j], col) }

\* The categories whose list holds the column.
PlacedIn(col) == { categorized[i][1] : i \in { k \in 1..Len(categorized) : col \in Range(categorized[k][2]) } }

\* C12: every column is in the list of the first category, in the
\* configured order, with a keyword that occurs in the column name, case
\* ignored, and in no other list; a column that no keyword occurs in is in
\* the uncategorized list and in no category.
C12_FirstMatchingCategory ==
  pc # "start" =>
    \A col \in Range(grade_columns) :
      IF MatchingCategories(col) = {}
      THEN PlacedIn(col) = {} /\ col \in Range(uncategorized)
      ELSE /\ PlacedIn(col) =
                { category_keywords[CHOOSE i \in MatchingCategories(col) :
                                      \A k \in MatchingCategories(col) : i <= k][1] }
           /\ col \notin Range(uncategorized)

\* C12 happens: "Final Exam Quiz" matches the keywords of Exams and of
\* Quizzes; with Quizzes configured first it is in Quizzes, and "HW 1",
\* which matches nothing, is uncategorized.
C12_Witness ==
  /\ pc = "loop"
  /\ category_keywords = << << << "Q", "u", "i", "z", "z", "e", "s" >>, << << "Q", "u", "i", "z" >> >> >>,
                            << << "E", "x", "a", "m", "s" >>, << << "e", "x", "a", "m" >> >> >> >>
  /\ Len(grade_columns) = 2
  /\ Cardinality(MatchingCategories(grade_columns[1])) = 2
  /\ PlacedIn(grade_columns[1]) = { << "Q", "u", "i", "z", "z", "e", "s" >> }
  /\ uncategorized = << << "H", "W", " ", "1" >> >>

\* The ways to order n things.
Orders(n) == { f \in [1..n -> 1..n] : \A i, j \in 1..n : i # j => f[i] # f[j] }

\* The keyword maps that differ from km in the order of the keywords
\* inside the categories at most.
Reorderings(km) ==
  { [i \in 1..Len(km) |-> << km[i][1], [j \in 1..Len(km[i][2]) |-> km[i][2][f[i][j]]] >>] :
      f \in { g \in [1..Len(km) -> UNION { Orders(Len(km[i][2])) : i \in 1..Len(km) }] :
                \A i \in 1..Len(km) : g[i] \in Orders(Len(km[i][2])) } }

\* C13: categorize_columns gives the same categorized map and the same
\* uncategorized list for every reordering of the keywords inside the
\* categories of the keyword map.
C13_KeywordOrderIrrelevant ==
  pc # "start" =>
    \A km \in Reorderings(category_keywords) :
      categorize_columns(grade_columns, km) = [categorized |-> categorized, uncategorized |-> uncategorized]

\* C13 happens: a category with several keywords holds a column that its
\* first keyword does not occur in, so that a reordering changes which
\* keyword is tried first.
C13_Witness ==
  /\ pc = "loop"
  /\ Cardinality(Reorderings(category_keywords)) >= 6
  /\ \E i \in 1..Len(categorized) : \E k \in 1..Len(category_keywords) :
       /\ category_keywords[k][1] = categorized[i][1]
       /\ Len(category_keywords[k][2]) >= 2
       /\ \E col \in Range(categorized[i][2]) : ~ Occurs(category_keywords[k][2][1], col)

(***************************************************************************)
(* A report asked for twice                                                *)
(***************************************************************************)

C15_DistinctColumnNames ==
  pc = "parsed" =>
    /\ Len(unique_headers) = Len(headers)
    /\ \A i, j \in 1..Len(unique_headers) : i # j => unique_headers[i] # unique_headers[j]

(***************************************************************************)
(* Properties of the item rows                                             *)
(***************************************************************************)

\* The rows of sheet k written for the item col.
ItemRowsOf(k, col) ==
  { r \in 1..Len(sheets[k].ws) : sheets[k].ws[r].kind = "item" /\ sheets[k].ws[r].a = Str(col) }

\* C16: the earned score of every item that is not excused is a number
\* greater than or equal to 0, in the row of the item and in the list of
\* earned scores of its category.
C16_ScoresNotNegative ==
  \A k \in 1..Len(sheets) :
    /\ \A col \in Range(grade_columns) :
         ~ ExcusedMarker(RowOf(k).cells[col]) =>
           \A r \in ItemRowsOf(k, col) :
             sheets[k].ws[r].b.t = "num" /\ sheets[k].ws[r].b.v.n >= 0
    /\ \A i \in 1..Len(sheets[k].blocks) : \A j \in 1..Len(sheets[k].blocks[i].grades) :
         sheets[k].blocks[i].grades[j].n >= 0

\* The category of the block of sheet k that holds the item col.
CategoryOf(k, col) ==
  sheets[k].blocks[CHOOSE i \in 1..Len(sheets[k].blocks) : col \in Range(sheets[k].blocks[i].columns)].category

\* C17 as stated: every item has one row; the row of an excused item shows
\* "Excused" in the score column and in the max-points column, and the row
\* of any other item shows its earned value and its max points.
C17_ExcusedInBothColumns ==
  \A k \in 1..Len(sheets) : \A col \in Range(grade_columns) :
    /\ Cardinality(ItemRowsOf(k, col)) = 1
    /\ \A r \in ItemRowsOf(k, col) :
         IF ExcusedMarker(RowOf(k).cells[col])
         THEN /\ sheets[k].ws[r].b = Str(<< "E", "x", "c", "u", "s", "e", "d" >>)
              /\ sheets[k].ws[r].c = Str(<< "E", "x", "c", "u", "s", "e", "d" >>)
         ELSE /\ sheets[k].ws[r].b = Num(EarnedOf(RowOf(k).cells[col]))
              /\ sheets[k].ws[r].c = Num(Int2F(PointsOf(CategoryOf(k, col), col)))

\* C17, amended: every item has one row; the row of an excused item shows
\* the literal "E" in the score column and the literal "Excused" in the
\* max-points column, and the row of any other item shows its earned value
\* and its max points.
C17_ExcusedRowShowsEAndExcused ==
  \A k \in 1..Len(sheets) : \A col \in Range(grade_columns) :
    /\ Cardinality(ItemRowsOf(k, col)) = 1
    /\ \A r \in ItemRowsOf(k, col) :
         IF ExcusedMarker(RowOf(k).cells[col])
         THEN /\ sheets[k].ws[r].b = Str(<< "E" >>)
              /\ sheets[k].ws[r].c = Str(<< "E", "x", "c", "u", "s", "e", "d" >>)
         ELSE /\ sheets[k].ws[r].b = Num(EarnedOf(RowOf(k).cells[col]))
              /\ sheets[k].ws[r].c = Num(Int2F(PointsOf(CategoryOf(k, col), col)))

\* C17 happens: a sheet holds the row of an item excused by the cell " e ",
\* showing "E" and "Excused", and the row of an item with the score 60 out
\* of the 20 points set for the item.
C17_Witness ==
  \E k \in 1..Len(sheets) : \E c1, c2 \in Range(grade_columns) :
    /\ RowOf(k).cells[c1] = Str(<< " ", "e", " " >>)
    /\ RowOf(k).cells[c2] = Num(Int2F(60))
    /\ c2 \in DOMAIN item_max_points /\ item_max_points[c2] = 20
    /\ \E r1 \in ItemRowsOf(k, c1) :
         sheets[k].ws[r1].b = Str(<< "E" >>) /\ sheets[k].ws[r1].c = Str(<< "E", "x", "c", "u", "s", "e", "d" >>)
    /\ \E r2 \in ItemRowsOf(k, c2) :
         sheets[k].ws[r2].b = Num(Int2F(60)) /\ sheets[k].ws[r2].c = Num(Int2F(20))

\* The number of items of a block of sheet k whose row has one of the fills.
FilledItems(k, columns, fills) ==
  Cardinality({ col \in Range(columns) : \E r \in ItemRowsOf(k, col) : sheets[k].ws[r].fill \in fills })

\* C18: the row of every item has exactly one of three fills: the excused
\* fill (amber) if and only if the item is excused, the zero-score fill
\* (red) if and only if it is not excused and its earned score is 0, the
\* score fill (green) if and only if it is not excused and its earned
\* score is positive; and the items in the sums of a category are exactly
\* the items of the category whose fill is red or green.
C18_FillByScore ==
  \A k \in 1..Len(sheets) :
    /\ \A col \in Range(grade_columns) : \A r \in ItemRowsOf(k, col) :
         LET x == RowOf(k).cells[col]
             fill == sheets[k].ws[r].fill
         IN  /\ fill \in { "excused_fill", "zero_score_fill", "score_fill" }
             /\ fill = "excused_fill" <=> ExcusedMarker(x)
             /\ fill = "zero_score_fill" <=> (~ ExcusedMarker(x) /\ EarnedOf(x).n = 0)
             /\ fill = "score_fill" <=> (~ ExcusedMarker(x) /\ EarnedOf(x).n > 0)
    /\ \A i \in 1..Len(sheets[k].blocks) :
         /\ Len(sheets[k].blocks[i].grades)
              = FilledItems(k, sheets[k].blocks[i].columns, { "zero_score_fill", "score_fill" })
         /\ Len(sheets[k].blocks[i].max) = Len(sheets[k].blocks[i].grades)

(***************************************************************************)
(* Properties of the weighted section and of the excused summary           *)
(***************************************************************************)

\* The rows of one kind on sheet k, in the order of the sheet.
KindRows(k, kind) == SelectSeq(sheets[k].ws, LAMBDA w : w.kind = kind)

\* The categories of sheet k with a result: the blocks with an item that is
\* not excused, in the order of the blocks.
ResultCategories(k) ==
  LET with == SelectSeq(sheets[k].blocks, LAMBDA b : Scored(b.columns, RowOf(k)) # << >>)
  IN  [i \in 1..Len(with) |-> with[i].category]

\* The weighted section of sheet k is complete: the banner, the sub-header,
\* one row per category with a result, in their order, and the final row,
\* the one below the other.
WeightedComplete(k) ==
  LET banner == KindRows(k, "weighted_banner")
      header == KindRows(k, "weighted_header")
      rows == KindRows(k, "weighted")
      final == KindRows(k, "final")
  IN  /\ Len(banner) = 1 /\ Len(header) = 1 /\ Len(final) = 1
      /\ [i \in 1..Len(rows) |-> rows[i].a] = [i \in 1..Len(ResultCategories(k)) |-> Str(ResultCategories(k)[i])]
      /\ header[1].row = banner[1].row + 1
      /\ \A i \in 1..Len(rows) : rows[i].row = header[1].row + i
      /\ final[1].row > header[1].row + Len(rows)

\* Sheet k has no row of the weighted section.
WeightedAbsent(k) ==
  \A r \in 1..Len(sheets[k].ws) :
    sheets[k].ws[r].kind \notin { "weighted_banner", "weighted_header", "weighted", "final" }

ExcusedCount(k) == Cardinality({ col \in Range(grade_columns) : ExcusedMarker(RowOf(k).cells[col]) })

\* C20: on every sheet the excused count is the number of the student's
\* grade cells, over all categories and Other, that hold the excused
\* marker, whatever the sheets before it counted; the sheet has the
\* EXCUSED ASSIGNMENTS row if and only if the count is greater than 0, and
\* the row shows the count.
C20_ExcusedCountPerStudent ==
  \A k \in 1..Len(sheets) :
    /\ sheets[k].total_excused = ExcusedCount(k)
    /\ Len(KindRows(k, "excused")) = (IF ExcusedCount(k) > 0 THEN 1 ELSE 0)
    /\ \A i \in 1..Len(KindRows(k, "excused")) : KindRows(k, "excused")[i].b = Num(Int2F(ExcusedCount(k)))

\* C20 happens: a sheet with one excused item is followed by a sheet with
\* the two excused items " e " and "E", in a category and in Other, whose
\* summary row shows 2.
C20_Witness ==
  \E k1, k2 \in 1..Len(sheets) :
    /\ k1 < k2
    /\ ExcusedCount(k1) = 1 /\ sheets[k1].total_excused = 1
    /\ ExcusedCount(k2) = 2 /\ sheets[k2].total_excused = 2
    /\ \E col \in Range(grade_columns) : RowOf(k2).cells[col] = Str(<< " ", "e", " " >>)
    /\ \E col \in Range(uncategorized) : RowOf(k2).cells[col] = Str(<< "E" >>)
    /\ KindRows(k2, "excused")[1].b = Num(Int2F(2))

(***************************************************************************)
(* Properties of the max points                                            *)
(***************************************************************************)

\* The category a column was classified into, "Other" for a column of the
\* uncategorized list.
ClassifiedInto(col) ==
  IF PlacedIn(col) = {} THEN << "O", "t", "h", "e", "r" >> ELSE CHOOSE c \in PlacedIn(col) : TRUE

\* The default max points of a category, 100 when none is configured.
CategoryDefault(category) ==
  IF category \in DOMAIN category_max_points THEN category_max_points[category] ELSE 100

\* C21: the max points of an item are the override of its column when the
\* column has one, and else the default of the category the column was
\* classified into, the default of "Other" for an uncategorized column:
\* the row of an item that is not excused shows them and the list of max
\* points of its block holds them, so that a column without an override
\* has the default of its category whatever overrides other columns have.
C21_OverrideElseCategoryDefault ==
  \A k \in 1..Len(sheets) :
    /\ \A col \in Range(grade_columns) :
         ~ ExcusedMarker(RowOf(k).cells[col]) =>
           \A r \in ItemRowsOf(k, col) :
             sheets[k].ws[r].c =
               Num(Int2F(IF col \in DOMAIN item_max_points THEN item_max_points[col]
                         ELSE CategoryDefault(ClassifiedInto(col))))
    /\ \A i \in 1..Len(sheets[k].blocks) :
         LET b == sheets[k].blocks[i]
             scored == Scored(b.columns, RowOf(k))
         IN  /\ \A col \in Range(b.columns) : ClassifiedInto(col) = b.category
             /\ b.max = [j \in 1..Len(scored) |->
                           Int2F(IF scored[j] \in DOMAIN item_max_points THEN item_max_points[scored[j]]
                                 ELSE CategoryDefault(b.category))]

\* C21 happens: a category holds an item with the override 20 and an item
\* without one, which shows the default 100 of the category, and an
\* uncategorized item shows the default 50 of "Other".
C21_Witness ==
  \E k \in 1..Len(sheets) : \E i \in 1..Len(sheets[k].blocks) :
    LET b == sheets[k].blocks[i]
    IN  /\ item_max_points # << >>
        /\ Len(b.columns) = 2
        /\ b.columns[1] \notin DOMAIN item_max_points
        /\ b.columns[2] \in DOMAIN item_max_points
        /\ b.max = << Int2F(100), Int2F(20) >>
        /\ CategoryDefault(b.category) = 100
        /\ Len(uncategorized) = 1
        /\ \E r \in ItemRowsOf(k, uncategorized[1]) : sheets[k].ws[r].c = Num(Int2F(50))

\* C22: a block with an item that is not excused has a stored percentage;
\* the percentage is 0 when the max points of its items that are not
\* excused sum to 0, whatever was earned, and is 100 * earned / possible
\* when they do not, so that nothing is divided by 0; the averages row of
\* the category shows it.
C22_ZeroPossibleGivesZero ==
  \A k \in 1..Len(sheets) : \A i \in 1..Len(sheets[k].blocks) :
    LET b == sheets[k].blocks[i]
        scored == Scored(b.columns, RowOf(k))
        possible == PossibleSum(b.category, scored)
    IN  scored # << >> =>
          /\ b.category \in Keys(sheets[k].category_averages)
          /\ IF possible = 0
             THEN Percentage(sheets[k], b.category) = Int2F(0)
             ELSE /\ Percentage(sheets[k], b.category).d > 0
                  /\ FMul(Percentage(sheets[k], b.category), Int2F(possible))
                       = FMul(Int2F(100), EarnedSum(scored, RowOf(k)))
          /\ \E r \in 1..Len(sheets[k].ws) :
               /\ sheets[k].ws[r].kind = "average"
               /\ sheets[k].ws[r].a = Str(b.category)
               /\ possible = 0 => sheets[k].ws[r].b = Num(Int2F(0))

\* C22 happens: a category holds two items that are not excused, with the
\* scores 90 and 60 out of 0 points each, and its stored percentage is 0;
\* on the same sheet another category has a percentage above 0.
C22_Witness ==
  \E k \in 1..Len(sheets) : \E i, j \in 1..Len(sheets[k].blocks) :
    LET b == sheets[k].blocks[i]
    IN  /\ b.grades = << Int2F(90), Int2F(60) >>
        /\ b.max = << Int2F(0), Int2F(0) >>
        /\ b.has_average
        /\ Percentage(sheets[k], b.category) = Int2F(0)
        /\ sheets[k].blocks[j].has_average
        /\ Percentage(sheets[k], sheets[k].blocks[j].category).n > 0

(***************************************************************************)
(* Properties of the attendance report                                     *)
(***************************************************************************)

\* The rows of sheet k written for the date column col.
DateRowsOf(k, col) ==
  { r \in 1..Len(sheets[k].ws) : sheets[k].ws[r].kind = "date" /\ sheets[k].ws[r].a = Str(col) }

\* C23: on an attendance sheet every selected column has one row; the row
\* of a cell that holds a number, or a text that reads as a number, shows
\* that number, whether or not it is 0 or 1, and the row of a cell that
\* is missing, empty or not a number, "E" included, shows 0; and every
\* valid row of the dataset has its sheet when the report is saved.
C23_AttendanceValuePassedThrough ==
  /\ \A k \in 1..Len(sheets) : \A col \in Range(attendance_columns) :
       LET x == RowOf(k).cells[col]
       IN  /\ Cardinality(DateRowsOf(k, col)) = 1
           /\ \A r \in DateRowsOf(k, col) :
                sheets[k].ws[r].b =
                  (IF x.t = "num" THEN Num(x.v)
                   ELSE IF x.t = "str" /\ x.s # << >> /\ ParseFloat(x.s).ok THEN Num(ParseFloat(x.s).v)
                   ELSE Num(Int2F(0)))
  /\ pc = "saved" => Len(sheets) = Cardinality({ i \in 1..Len(df) : ValidRow(df[i]) })

\* C23 happens: a saved report holds a sheet whose rows show the values 2
\* and 1/2 as they are, and another whose row shows 0 for the cell "E".
C23_Witness ==
  /\ pc = "saved"
  /\ Len(attendance_columns) = 2
  /\ \E k \in 1..Len(sheets) :
       /\ RowOf(k).cells[attendance_columns[1]] = Num(Int2F(2))
       /\ RowOf(k).cells[attendance_columns[2]] = Num(Frac(1, 2))
       /\ \E r \in DateRowsOf(k, attendance_columns[1]) : sheets[k].ws[r].b = Num(Int2F(2))
       /\ \E r \in DateRowsOf(k, attendance_columns[2]) : sheets[k].ws[r].b = Num(Frac(1, 2))
  /\ \E k \in 1..Len(sheets) :
       /\ RowOf(k).cells[attendance_columns[1]] = Str(<< "E" >>)
       /\ \E r \in DateRowsOf(k, attendance_columns[1]) : sheets[k].ws[r].b = Num(Int2F(0))

(***************************************************************************)
(* Properties of the run as a whole                                        *)
(***************************************************************************)

\* C24: no step of a report changes what the report was called with: the
\* column names, rows, row order and cell values of the dataset, the
\* keyword map, the max points of the categories, the weights, the item
\* overrides and the selected columns.
C24_InputsUnchanged == [][inputs' = inputs]_vars

\* C24 happens: a report has returned whose sheets were created in an
\* order other than the order of the rows, and the dataset still has
\* every row at the place its index label names and the column names it
\* was read with.
C24_Witness ==
  /\ pc = "saved"
  /\ excel_output # NoOutput
  /\ Len(df) >= 2
  /\ df_sorted[1].idx # 0
  /\ \A j \in 1..Len(df_sorted) : df_sorted[j].row = df[df_sorted[j].idx + 1]
  /\ unique_headers = << << "I", "D" >>, << "F", "i", "r", "s", "t" >>, << "L", "a", "s", "t" >> >> \o grade_columns

\* The lower-cased last name of the student of sheet k, a missing last name
\* taken as its string rendering.
LastKey(k) == Lower(PyStr(RowOf(k).last_name))

SectionOf(kind) ==
  CASE kind \in { "id", "first_name", "last_name" } -> 1
    [] kind = "header" -> 2
    [] kind \in { "category", "item" } -> 3
    [] kind \in { "averages_banner", "average" } -> 4
    [] kind \in { "weighted_banner", "weighted_header", "weighted" } -> 5
    [] kind = "final" -> 6
    [] kind = "excused" -> 7

\* C26: on every student sheet the rows are written at strictly
\* increasing row indices, so that no two of them share a row, no cell is
\* written twice and no two merged banners overlap: the identity block in
\* rows 1 to 3, nothing in row 4, the header in row 5, and from row 6 on
\* the banners and items, the averages, the weighted rows, the final
\* weighted grade and the excused summary, in that order of sections.
C26_RowsDistinctAndOrdered ==
  mode = "grades" =>
    \A k \in 1..Len(sheets) :
      LET ws == sheets[k].ws
      IN  /\ Len(ws) >= 4
          /\ << ws[1].kind, ws[2].kind, ws[3].kind, ws[4].kind >> = << "id", "first_name", "last_name", "header" >>
          /\ << ws[1].row, ws[2].row, ws[3].row, ws[4].row >> = << 1, 2, 3, 5 >>
          /\ \A i \in 1..(Len(ws) - 1) :
               /\ ws[i].row < ws[i + 1].row
               /\ SectionOf(ws[i].kind) <= SectionOf(ws[i + 1].kind)
          /\ \A i \in 5..Len(ws) : SectionOf(ws[i].kind) >= 3

\* C26 happens: a sheet holds every section: two category banners and the
\* OTHER banner with their items, the averages, the weighted rows, the
\* final weighted grade and, two rows below it, the excused summary.
C26_Witness ==
  \E k \in 1..Len(sheets) :
    /\ Len(KindRows(k, "category")) = 3
    /\ Len(KindRows(k, "item")) = 3
    /\ Len(KindRows(k, "averages_banner")) = 1
    /\ Len(KindRows(k, "average")) = 2
    /\ Len(KindRows(k, "weighted")) = 2
    /\ Len(KindRows(k, "final")) = 1
    /\ Len(KindRows(k, "excused")) = 1
    /\ KindRows(k, "averages_banner")[1].row = 13
    /\ KindRows(k, "excused")[1].row = KindRows(k, "final")[1].row + 2

(***************************************************************************)
(* Properties of the collision loop                                        *)
(***************************************************************************)

\* How often the body of the collision loop ran for sheet k.
Iterations(k) == sheets[k].counter - 1

\* The candidate is itself one of the first n suffixed names the loop tries.
SelfSuffixed(cand, n) == \E j \in 1..n : cand = Numbered(cand, j)

\* C27 as stated: the collision loop ends with a name that is not in use,
\* after at most as many iterations as there are names in use, and the
\* suffix of the name is the number of iterations.
C27_AtMostKIterations ==
  \A k \in 1..Len(sheets) :
    /\ sheetnames[k] \notin UsedBefore(k)
    /\ Iterations(k) <= Cardinality(UsedBefore(k))
    /\ Iterations(k) > 0 => sheetnames[k] = Numbered(CandidateOf(k), Iterations(k))

\* C27, amended: the collision loop ends with a name that is not in use,
\* after at most one iteration more than there are names in use, and
\* after at most as many as there are names in use unless the candidate
\* is itself one of the suffixed names the loop tries; the suffix of the
\* name is the number of iterations.
C27_AtMostKPlusOneIterations ==
  \A k \in 1..Len(sheets) :
    /\ sheetnames[k] \notin UsedBefore(k)
    /\ Iterations(k) <= Cardinality(UsedBefore(k)) + 1
    /\ ~ SelfSuffixed(CandidateOf(k), Iterations(k)) => Iterations(k) <= Cardinality(UsedBefore(k))
    /\ Iterations(k) > 0 => sheetnames[k] = Numbered(CandidateOf(k), Iterations(k))

\* C27 happens: one name is in use, a candidate of 30 characters that ends
\* in "_1"; the next row has the same candidate, the loop tries the
\* candidate again as its first suffixed name, and ends after two
\* iterations with the suffix 2.
C27_Witness ==
  /\ Len(sheets) >= 2
  /\ UsedBefore(2) = { CandidateOf(2) }
  /\ Len(CandidateOf(2)) = 30
  /\ Numbered(CandidateOf(2), 1) = CandidateOf(2)
  /\ Iterations(2) = 2
  /\ sheetnames[2] = Numbered(CandidateOf(2), 2)

(***************************************************************************)
(* Properties of the order of the categories                               *)
(***************************************************************************)

\* The place of the first of the given columns in the input columns.
FirstPlace(columns) ==
  CHOOSE p \in 1..Len(grade_columns) :
    /\ grade_columns[p] \in Range(columns)
    /\ \A q \in 1..(p - 1) : grade_columns[q] \notin Range(columns)

\* The input columns that are in the given list, in the order of the input.
InInputOrder(columns) == SelectSeq(grade_columns, LAMBDA c : c \in Range(columns))

\* The banners a sheet shows for the categorization, in order.
Banners ==
  [i \in 1..Len(categorized) |-> Str(Upper(categorized[i][1]))]
  \o (IF uncategorized # << >> THEN << Str(<< "O", "T", "H", "E", "R" >>) >> ELSE << >>)

\* C28: categorize_columns lists only categories with a column, in the
\* order in which the categories receive their first column when the
\* input columns are scanned from left to right; the columns of a
\* category and the uncategorized columns are in the order of the input;
\* and a sheet shows the banners of the categories in the order of the
\* list, and the OTHER banner after them.
C28_CategoriesInOrderOfFirstColumn ==
  pc # "start" =>
    /\ \A i \in 1..Len(categorized) :
         /\ categorized[i][2] # << >>
         /\ categorized[i][2] = InInputOrder(categorized[i][2])
         /\ \A j \in 1..Len(categorized) :
              i < j => FirstPlace(categorized[i][2]) < FirstPlace(categorized[j][2])
    /\ uncategorized = InInputOrder(uncategorized)
    /\ \A k \in 1..Len(sheets) :
         [i \in 1..Len(KindRows(k, "category")) |-> KindRows(k, "category")[i].a] = Banners

\* C28 happens: Exams is configured before Quizzes, the column of Quizzes
\* comes first in the input, and the sheet shows QUIZZES, EXAMS and OTHER
\* in that order.
C28_Witness ==
  /\ Len(category_keywords) = 2
  /\ Len(categorized) = 2
  /\ category_keywords[1][1] = categorized[2][1]
  /\ category_keywords[2][1] = categorized[1][1]
  /\ uncategorized # << >>
  /\ Len(sheets) = 1
  /\ Len(KindRows(1, "category")) = 3
  /\ KindRows(1, "category")[1].a = Str(<< "Q", "U", "I", "Z", "Z", "E", "S" >>)
  /\ KindRows(1, "category")[2].a = Str(<< "E", "X", "A", "M", "S" >>)
  /\ KindRows(1, "category")[3].a = Str(<< "O", "T", "H", "E", "R" >>)

(***************************************************************************)
(* Properties of the attendance summary                                    *)
(***************************************************************************)

\* The value the report shows for a cell of a date column.
Normalized(x) ==
  IF x.t = "num" THEN x.v
  ELSE IF x.t = "str" /\ x.s # << >> /\ ParseFloat(x.s).ok THEN ParseFloat(x.s).v
  ELSE Int2F(0)

\* The places of the selected columns in which the student of sheet k has
\* the value 1.
PresentPlaces(k) ==
  { i \in 1..Len(attendance_columns) : Normalized(RowOf(k).cells[attendance_columns[i]]) = Int2F(1) }

\* The value in column B of the only row of the given kind of sheet k.
SummaryValue(k, kind) == KindRows(k, kind)[1].b

\* C29: on an attendance sheet Total Days is the number of selected
\* columns, Days Present the number of selected columns whose value is
\* exactly 1, Days Absent the difference of the two, so that a value that
\* is neither 0 nor 1 counts as absent and Present + Absent = Total, and
\* the rate is 100 * present / total, or 0 when no column is selected,
\* shown rounded to one decimal.
C29_AttendanceSummaryCounts ==
  \A k \in 1..Len(sheets) :
    LET total == Len(attendance_columns)
        present == Cardinality(PresentPlaces(k))
        rate == IF total = 0 THEN Int2F(0) ELSE Frac(100 * present, total)
    IN  /\ \A kind \in {"days_present", "days_absent", "total_days", "attendance_rate"} :
             Len(KindRows(k, kind)) = 1
        /\ SummaryValue(k, "total_days") = Num(Int2F(total))
        /\ SummaryValue(k, "days_present") = Num(Int2F(present))
        /\ SummaryValue(k, "days_absent") = Num(Int2F(total - present))
        /\ sheets[k].total_present + sheets[k].total_absent = sheets[k].total_days
        /\ sheets[k].attendance_rate = rate
        /\ SummaryValue(k, "attendance_rate") = Num(Round1(rate))

\* C29 happens: a sheet of two selected columns with the values 1 and 2
\* shows one day present, one day absent and a rate of 50, and another
\* report, with no column selected, shows a rate of 0 (C29_EmptySelection).
C29_Witness ==
  /\ Len(attendance_columns) = 2
  /\ \E k \in 1..Len(sheets) :
       /\ RowOf(k).cells[attendance_columns[1]] = Num(Int2F(1))
       /\ RowOf(k).cells[attendance_columns[2]] = Num(Int2F(2))
       /\ SummaryValue(k, "days_present") = Num(Int2F(1))
       /\ SummaryValue(k, "days_absent") = Num(Int2F(1))
       /\ SummaryValue(k, "total_days") = Num(Int2F(2))
       /\ SummaryValue(k, "attendance_rate") = Num(Int2F(50))

\* A sheet of a report with no selected column: no day, and a rate of 0.
C29_EmptySelection ==
  /\ attendance_columns = << >>
  /\ \E k \in 1..Len(sheets) :
       /\ SummaryValue(k, "total_days") = Num(Int2F(0))
       /\ SummaryValue(k, "attendance_rate") = Num(Int2F(0))

(***************************************************************************)
(* Properties of the detection of date columns                             *)
(***************************************************************************)

\* C30: detect_date_columns returns the input columns that are not in
\* the exclude list and for which is_date_column holds, in the order of
\* the input and as often as the input has them; it returns no excluded
\* column, and no column that is not in the input.
C30_DetectedAreTheDateColumns ==
  pc = "detected" =>
    /\ auto_detected_dates =
         SelectSeq(available_columns, LAMBDA c : c \notin Range(exclude_list) /\ is_date_column(c))
    /\ Range(auto_detected_dates) \cap Range(exclude_list) = {}
    /\ Range(auto_detected_dates) \subseteq Range(available_columns)

\* C30 happens: of three columns, a date column that is excluded, a date
\* column and a column that is no date, the call returned the second only.
C30_Witness ==
  /\ pc = "detected"
  /\ Len(available_columns) = 3
  /\ available_columns[1] \in Range(exclude_list) /\ is_date_column(available_columns[1])
  /\ available_columns[2] \notin Range(exclude_list) /\ is_date_column(available_columns[2])
  /\ ~ is_date_column(available_columns[3])
  /\ auto_detected_dates = << available_columns[2] >>

====
